---------------------------- MODULE Spec2Model ----------------------------
(***************************************************************************)
(* Data plane of the dynamic ingress gateway (rootfs/etc/nginx/lua/        *)
(* balancer.lua): one worker with its balancer registry, its server        *)
(* registry and the three timers that reconcile them with the publisher,   *)
(* and one request at a time going through the rewrite, balancer and log   *)
(* phases.                                                                 *)
(*                                                                         *)
(* Lua tables are functions whose DOMAIN is the set of keys that are not   *)
(* nil.  Strings that the code only compares are TLA+ strings; strings it  *)
(* searches, measures or rewrites (paths, URIs, ticket values) are         *)
(* sequences of characters; a host name is the sequence of its DNS labels. *)
(***************************************************************************)
EXTENDS Integers, Sequences, FiniteSets, TLC

VARIABLES
    releaseIngresses,               \* controller: the release ingresses of the last sync
    upstreams,                      \* controller: upstream name -> backend of the last sync
    now,                            \* ngx.time() of the node
    backends_data,                  \* publisher: the backend table as posted
    servers_data,                   \* publisher: the server table as posted
    raw_backends_last_synced_at,    \* publisher: timestamp of the backend table
    balancers,                      \* worker: backend name -> instance reference
    instances,                      \* worker: instance reference -> balancer object
    backends_with_external_name,    \* worker: backend name -> cached backend
    backends_last_synced_at,        \* worker: timestamp of the table applied last
    alternative_backends,           \* worker: backend name -> sibling names
    servers,                        \* worker: host -> server_conf
    request,                        \* the request in flight (its inputs)
    phase,                          \* the phase handler that ran last ("idle": no request)
    ngx_var,                        \* ngx.var of the request
    ngx_ctx,                        \* ngx.ctx of the request
    response                        \* what the handlers have answered so far

vars == <<releaseIngresses, upstreams, now, backends_data, servers_data, raw_backends_last_synced_at,
          balancers, instances, backends_with_external_name,
          backends_last_synced_at, alternative_backends, servers,
          request, phase, ngx_var, ngx_ctx, response>>

controller_vars == <<releaseIngresses, upstreams>>

publisher_vars == <<backends_data, servers_data, raw_backends_last_synced_at>>
registry_vars == <<balancers, instances, backends_with_external_name,
                   backends_last_synced_at, alternative_backends>>
request_vars == <<request, phase, ngx_var, ngx_ctx, response>>

(***************************************************************************)
(* Lua tables                                                              *)
(***************************************************************************)
EmptyTable == <<>>
Has(t, k) == k \in DOMAIN t
Put(t, k, v) == [n \in DOMAIN t \cup {k} |-> IF n = k THEN v ELSE t[n]]
Del(t, k) == [n \in DOMAIN t \ {k} |-> t[n]]
\* t[k] = v where v may be nil
Assign(t, k, present, v) == IF present THEN Put(t, k, v) ELSE Del(t, k)

(***************************************************************************)
(* Strings as sequences of characters                                      *)
(***************************************************************************)
IsPrefix(p, s) == Len(p) <= Len(s) /\ SubSeq(s, 1, Len(p)) = p
\* the positions of s where p occurs
Occurrences(p, s) == {i \in 1..(Len(s) - Len(p) + 1) : SubSeq(s, i, i + Len(p) - 1) = p}


(***************************************************************************)
(* Program constants                                                       *)
(***************************************************************************)
BACKENDS_SYNC_INTERVAL == 1
BACKENDS_FORCE_SYNC_INTERVAL == 30
DEFAULT_LB_ALG == "round_robin"
IMPLEMENTATIONS == {"round_robin", "chash", "chashsubset", "sticky_balanced",
                    "sticky_persistent", "ewma"}
\* math.random(100) returns an integer of 1..100
RandomRange == 1..100

(***************************************************************************)
(* Balancer registry                                                       *)
(***************************************************************************)
\* a variant in which a load-balance value of the backend is final
get_implementation_LoadBalanceFirst(backend) ==
    LET name == IF Has(backend, "load-balance") THEN backend["load-balance"]
                ELSE IF Has(backend, "sessionAffinityConfig")
                        /\ Has(backend.sessionAffinityConfig, "name")
                        /\ backend.sessionAffinityConfig.name = "cookie"
                THEN IF Has(backend.sessionAffinityConfig, "mode")
                        /\ backend.sessionAffinityConfig.mode = "persistent"
                     THEN "sticky_persistent"
                     ELSE "sticky_balanced"
                ELSE IF Has(backend, "upstreamHashByConfig")
                        /\ Has(backend.upstreamHashByConfig, "upstream-hash-by")
                     THEN IF Has(backend.upstreamHashByConfig, "upstream-hash-by-subset")
                          THEN "chashsubset"
                          ELSE "chash"
                     ELSE DEFAULT_LB_ALG
    IN  IF name \in IMPLEMENTATIONS THEN name ELSE DEFAULT_LB_ALG

get_implementation(backend) ==
    LET name0 == IF Has(backend, "load-balance") THEN backend["load-balance"]
                 ELSE DEFAULT_LB_ALG
        name == IF Has(backend, "sessionAffinityConfig")
                   /\ Has(backend.sessionAffinityConfig, "name")
                   /\ backend.sessionAffinityConfig.name = "cookie"
                THEN IF Has(backend.sessionAffinityConfig, "mode")
                        /\ backend.sessionAffinityConfig.mode = "persistent"
                     THEN "sticky_persistent"
                     ELSE "sticky_balanced"
                ELSE IF Has(backend, "upstreamHashByConfig")
                        /\ Has(backend.upstreamHashByConfig, "upstream-hash-by")
                     THEN IF Has(backend.upstreamHashByConfig, "upstream-hash-by-subset")
                          THEN "chashsubset"
                          ELSE "chash"
                     ELSE name0
    IN  IF name \in IMPLEMENTATIONS THEN name ELSE DEFAULT_LB_ALG

\* dns is the answer of util.dns.lookup for each address: a list of IPs
resolve_external_names(original_backend, dns) ==
    LET Resolved[i \in 0..Len(original_backend.endpoints)] ==
            IF i = 0 THEN <<>>
            ELSE LET endpoint == original_backend.endpoints[i]
                     ips == dns[endpoint.address]
                 IN  Resolved[i - 1] \o
                     [j \in 1..Len(ips) |-> [address |-> ips[j], port |-> endpoint.port]]
    IN  [original_backend EXCEPT !.endpoints = Resolved[Len(original_backend.endpoints)]]

\* The addresses that the Lua pattern "^%d+.%d+.%d+.%d+$" matches.
DottedQuads == {"10.0.0.1", "10.0.0.2", "10.0.0.9"}
\* string.format("[%s]", address)
Bracketed(address) == <<"[", address, "]">>

format_ipv6_endpoints(endpoints) ==
    [i \in 1..Len(endpoints) |->
        IF endpoints[i].address \in DottedQuads THEN endpoints[i]
        ELSE [endpoints[i] EXCEPT !.address = Bracketed(@)]]

is_backend_with_external_name(backend) ==
    /\ Has(backend, "service")
    /\ Has(backend.service, "spec")
    /\ Has(backend.service.spec, "type")
    /\ backend.service.spec.type = "ExternalName"

\* implementation:new(backend): the instance keeps the release fields of the backend
InstanceNew(implementation, backend) ==
    [implementation |-> implementation, endpoints |-> backend.endpoints]
    @@ (IF Has(backend, "trafficShapingPolicy")
        THEN [traffic_shaping_policy |-> backend.trafficShapingPolicy] ELSE EmptyTable)
    @@ (IF Has(backend, "alternativeBackends")
        THEN [alternative_backends |-> backend.alternativeBackends] ELSE EmptyTable)

\* balancer:sync(backend): the same object, its fields refreshed from the backend
InstanceSync(balancer, backend) == InstanceNew(balancer.implementation, backend)

\* An instance reference is <<backend name, incarnation>>; a new instance takes
\* the least incarnation that neither the registry nor a request in flight holds.
Incarnations == 0..2
FreshIncarnation(reg, name, pinned) ==
    CHOOSE k \in Incarnations :
        LET Free(j) == /\ <<name, j>> \notin pinned
                       /\ ~(Has(reg.balancers, name) /\ reg.balancers[name] = j)
        IN  Free(k) /\ \A j \in Incarnations : j < k => ~Free(j)

\* a sync_backend that never resets an instance: it syncs whatever it finds
sync_backend_NeverResets(reg, backend0, dns, pinned) ==
    IF ~Has(backend0, "endpoints") \/ Len(backend0.endpoints) = 0
    THEN [reg EXCEPT !.balancers = Del(@, backend0.name)]
    ELSE
      LET backend1 == IF is_backend_with_external_name(backend0)
                      THEN resolve_external_names(backend0, dns)
                      ELSE backend0
          backend == [backend1 EXCEPT !.endpoints = format_ipv6_endpoints(@)]
          implementation == get_implementation(backend)
          k == FreshIncarnation(reg, backend.name, pinned)
      IN  IF ~Has(reg.balancers, backend.name)
          THEN [balancers |-> Put(reg.balancers, backend.name, k),
                instances |-> Put(reg.instances, <<backend.name, k>>,
                                  InstanceNew(implementation, backend))]
          ELSE LET ref == <<backend.name, reg.balancers[backend.name]>>
               IN  [reg EXCEPT !.instances =
                        Put(@, ref, InstanceSync(reg.instances[ref], backend))]

\* reg is [balancers, instances]; pinned the references requests in flight hold
sync_backend(reg, backend0, dns, pinned) ==
    IF ~Has(backend0, "endpoints") \/ Len(backend0.endpoints) = 0
    THEN [reg EXCEPT !.balancers = Del(@, backend0.name)]
    ELSE
      LET backend1 == IF is_backend_with_external_name(backend0)
                      THEN resolve_external_names(backend0, dns)
                      ELSE backend0
          backend == [backend1 EXCEPT !.endpoints = format_ipv6_endpoints(@)]
          implementation == get_implementation(backend)
          k == FreshIncarnation(reg, backend.name, pinned)
          created == [balancers |-> Put(reg.balancers, backend.name, k),
                      instances |-> Put(reg.instances, <<backend.name, k>>,
                                        InstanceNew(implementation, backend))]
      IN  IF ~Has(reg.balancers, backend.name) THEN created
          ELSE LET ref == <<backend.name, reg.balancers[backend.name]>>
               IN  IF reg.instances[ref].implementation # implementation THEN created
                   ELSE [reg EXCEPT !.instances =
                            Put(@, ref, InstanceSync(reg.instances[ref], backend))]

\* Objects that nothing refers to any more are collected.
Collect(bal, inst, pinned) ==
    [ref \in {r \in DOMAIN inst : r \in pinned \/ (Has(bal, r[1]) /\ bal[r[1]] = r[2])}
        |-> inst[ref]]

(***************************************************************************)
(* Publisher (configuration module): what the controller posted last.      *)
(* A table is posted as text: NoData is "nothing stored", Json(t) the      *)
(* encoding of t, Garbage a body that cjson cannot decode.                 *)
(*                                                                         *)
(* A worker sees the publisher only when a timer reads it, so the posts of *)
(* the controller are folded into the next read: a read finds either what  *)
(* the last read found, or a table posted since, with the time of its post.*)
(* backends_data, servers_data and raw_backends_last_synced_at hold what   *)
(* the last read found.                                                    *)
(***************************************************************************)
NoData == [kind |-> "nil"]
Garbage == [kind |-> "garbage"]
Json(t) == [kind |-> "json", value |-> t]
\* cjson.decode: the table and TRUE, or nil and FALSE
Decodes(data) == data.kind = "json"
Decoded(data) == data.value

\* what configuration.get_backends_data() and get_raw_backends_last_synced_at()
\* may return now: [data, at]
BackendPosts(tables) ==
    {[data |-> backends_data, at |-> raw_backends_last_synced_at]}
    \cup {[data |-> data, at |-> now] : data \in tables}
\* what configuration.get_servers_data() may return now
ServerPosts(tables) == {servers_data} \cup tables

\* references that the request in flight holds
Pinned == IF Has(ngx_ctx, "balancer") THEN {ngx_ctx.balancer} ELSE {}

(***************************************************************************)
(* sync_backends: the 1 s timer (and init_worker)                          *)
(***************************************************************************)
\* the loop over the decoded table; keep is balancers_to_keep
SyncLoop(new_backends, start, dns, pinned) ==
    LET Step[i \in 0..Len(new_backends)] ==
          IF i = 0 THEN start
          ELSE
            LET st == Step[i - 1]
                new_backend == new_backends[i]
                synced == sync_backend([balancers |-> st.balancers,
                                        instances |-> st.instances],
                                       new_backend, dns, pinned)
                st1 == IF is_backend_with_external_name(new_backend)
                       THEN [st EXCEPT !.ext = Put(@, new_backend.name, new_backend)]
                       ELSE [st EXCEPT
                               !.balancers = synced.balancers,
                               !.instances = synced.instances,
                               !.alts = Assign(@, new_backend.name,
                                               Has(new_backend, "alternativeBackends"),
                                               IF Has(new_backend, "alternativeBackends")
                                               THEN new_backend.alternativeBackends
                                               ELSE <<>>)]
            IN  IF Has(new_backend, "endpoints") /\ Len(new_backend.endpoints) > 0
                THEN [st1 EXCEPT !.keep = @ \cup {new_backend.name}]
                ELSE st1
    IN  Step[Len(new_backends)]

\* the loop over the registry that drops what the table no longer keeps
SyncSweep(st) ==
    LET gone == DOMAIN st.balancers \ st.keep
    IN  [st EXCEPT !.balancers = [n \in DOMAIN @ \ gone |-> @[n]],
                   !.ext = [n \in DOMAIN @ \ gone |-> @[n]],
                   !.alts = [n \in DOMAIN @ \ gone |-> @[n]]]

\* a variant that waits for the forced refresh whatever the publisher's timestamp
UpToDate_ForceOnly(raw, current_timestamp) ==
    current_timestamp - backends_last_synced_at < BACKENDS_FORCE_SYNC_INTERVAL
\* the test that ends sync_backends before it reads the table
UpToDate(raw, current_timestamp) ==
    /\ current_timestamp - backends_last_synced_at < BACKENDS_FORCE_SYNC_INTERVAL
    /\ raw <= backends_last_synced_at

sync_backends(get_backends_data, get_raw_backends_last_synced_at) ==
    LET raw == get_raw_backends_last_synced_at
        current_timestamp == now
    IN
    IF UpToDate(raw, current_timestamp)
    THEN UNCHANGED registry_vars
    ELSE IF get_backends_data = NoData
    THEN /\ balancers' = EmptyTable
         /\ alternative_backends' = EmptyTable
         /\ instances' = Collect(EmptyTable, instances, Pinned)
         /\ UNCHANGED <<backends_with_external_name, backends_last_synced_at>>
    ELSE IF ~Decodes(get_backends_data)
    THEN UNCHANGED registry_vars
    ELSE
      LET start == [balancers |-> balancers, instances |-> instances,
                    ext |-> backends_with_external_name,
                    alts |-> alternative_backends, keep |-> {}]
      IN  \* no DNS lookup happens here: ExternalName backends are only cached
          \E st \in {SyncSweep(SyncLoop(Decoded(get_backends_data), start,
                                        EmptyTable, Pinned))} :
          /\ balancers' = st.balancers
          /\ instances' = Collect(st.balancers, st.instances, Pinned)
          /\ backends_with_external_name' = st.ext
          /\ alternative_backends' = st.alts
          /\ backends_last_synced_at' = raw

SyncBackends(tables) ==
    /\ \E post \in BackendPosts(tables) :
          /\ backends_data' = (IF UpToDate(post.at, now) THEN backends_data
                                ELSE post.data)
          /\ raw_backends_last_synced_at' = post.at
          /\ sync_backends(post.data, post.at)
    /\ UNCHANGED <<controller_vars, now, servers_data, servers, request_vars>>

(***************************************************************************)
(* sync_backends_with_external_name: its own timer                         *)
(***************************************************************************)
\* what util.dns.lookup may answer for an address
DnsAnswers == {<<>>, <<"10.0.0.9">>}
ExternalAddresses ==
    UNION {{backends_with_external_name[n].endpoints[i].address :
                i \in DOMAIN backends_with_external_name[n].endpoints} :
           n \in DOMAIN backends_with_external_name}

\* pairs() over the cache; each entry touches only the balancer of its own name
SyncCached(cache, reg, dns, pinned) ==
    LET Visit[todo \in SUBSET DOMAIN cache] ==
          IF todo = {} THEN reg
          ELSE LET n == CHOOSE m \in todo : TRUE
               IN  sync_backend(Visit[todo \ {n}], cache[n], dns, pinned)
    IN  Visit[DOMAIN cache]

sync_backends_with_external_name(dns) ==
    LET reg == SyncCached(backends_with_external_name,
                          [balancers |-> balancers, instances |-> instances],
                          dns, Pinned)
    IN  /\ balancers' = reg.balancers
        /\ instances' = Collect(reg.balancers, reg.instances, Pinned)
        /\ UNCHANGED <<backends_with_external_name, backends_last_synced_at,
                       alternative_backends>>

SyncBackendsWithExternalName ==
    /\ \E dns \in [ExternalAddresses -> DnsAnswers] :
          sync_backends_with_external_name(dns)
    /\ UNCHANGED <<controller_vars, now, publisher_vars, servers, request_vars>>

(***************************************************************************)
(* Server registry                                                         *)
(***************************************************************************)
LocationFields == {"path", "backend", "luaBackend", "rewrite", "redirect", "whitelist"}

sync_server(server) ==
    LET Locations[i \in 0..Len(server.locations)] ==
          IF i = 0 THEN EmptyTable
          ELSE LET location == server.locations[i]
                   server_location ==
                       [f \in DOMAIN location \cap LocationFields |-> location[f]]
               IN  Put(Locations[i - 1], server_location.path, server_location)
    IN  [hostname |-> IF Has(server, "hostname") THEN server.hostname ELSE <<>>,
         aliases |-> IF Has(server, "aliases") THEN server.aliases ELSE <<>>,
         locations |-> Locations[Len(server.locations)]]

\* the loop over the decoded table; st is [servers, keep]
SyncServersLoop(new_servers, start) ==
    LET Aliases(st, aliases, server_conf) ==
          LET A[j \in 0..Len(aliases)] ==
                IF j = 0 THEN st
                ELSE [servers |-> Put(A[j - 1].servers, aliases[j], server_conf),
                      keep |-> A[j - 1].keep \cup {aliases[j]}]
          IN  A[Len(aliases)]
        Step[i \in 0..Len(new_servers)] ==
          IF i = 0 THEN start
          ELSE LET new_server == new_servers[i]
                   server_name == new_server.hostname
                   server_conf == sync_server(new_server)
                   st == [servers |-> Put(Step[i - 1].servers, server_name, server_conf),
                          keep |-> Step[i - 1].keep \cup {server_name}]
               IN  IF Has(new_server, "aliases")
                   THEN Aliases(st, new_server.aliases, server_conf)
                   ELSE st
    IN  Step[Len(new_servers)]

\* a variant that treats a table it cannot decode as no table
sync_servers_DropOnError(get_servers_data) ==
    IF ~Decodes(get_servers_data)
    THEN servers' = EmptyTable
    ELSE LET st == SyncServersLoop(Decoded(get_servers_data),
                                   [servers |-> servers, keep |-> {}])
         IN  servers' = [h \in DOMAIN st.servers \cap st.keep |-> st.servers[h]]

\* a variant that never removes the hosts that left the table
sync_servers_NoSweep(get_servers_data) ==
    IF get_servers_data = NoData
    THEN servers' = EmptyTable
    ELSE IF ~Decodes(get_servers_data)
    THEN UNCHANGED servers
    ELSE LET st == SyncServersLoop(Decoded(get_servers_data),
                                   [servers |-> servers, keep |-> {}])
         IN  servers' = st.servers

sync_servers(get_servers_data) ==
    IF get_servers_data = NoData
    THEN servers' = EmptyTable
    ELSE IF ~Decodes(get_servers_data)
    THEN UNCHANGED servers
    ELSE LET st == SyncServersLoop(Decoded(get_servers_data),
                                   [servers |-> servers, keep |-> {}])
         IN  servers' = [h \in DOMAIN st.servers \cap st.keep |-> st.servers[h]]

SyncServers(tables) ==
    /\ \E data \in ServerPosts(tables) :
          /\ servers_data' = data
          /\ sync_servers(data)
    /\ UNCHANGED <<controller_vars, now, backends_data, raw_backends_last_synced_at, registry_vars,
                   request_vars>>

(***************************************************************************)
(* Request router: handle_server_request                                   *)
(*                                                                         *)
(* A request is [host, request_uri, scheme, the_real_ip, headers, cookies, *)
(* args, static_upstream]: static_upstream is the value the static         *)
(* configuration gave $proxy_upstream_name before the handler runs.  The   *)
(* requests of the model carry no query string in request_uri, so that     *)
(* ngx.var.uri and ngx.var.request_uri are the same text; their arguments  *)
(* are given in args.                                                      *)
(***************************************************************************)
Some(v) == <<v>>
None == <<>>

\* a variant that replaces every label but the last two
WildcardHost_AnyDepth(host) ==
    IF Len(host) >= 3 /\ host[1] # ""
    THEN <<"*">> \o SubSeq(host, Len(host) - 1, Len(host))
    ELSE host

\* ngx.re.sub(host, "^[^\\.]+\\.", "*.", "jo"): the subject itself when the
\* pattern does not match
WildcardHost(host) ==
    IF Len(host) >= 2 /\ host[1] # "" THEN <<"*">> \o Tail(host) ELSE host

\* ngx.re.match(subject, path) for a path without regex metacharacters: a search
PathMatches(request_uri, path) == Occurrences(path, request_uri) # {}

\* a variant in which the first matching location visited wins
LongestMatch_FirstMatch(locations, order, request_uri) ==
    LET Step[i \in 0..Len(order)] ==
          IF i = 0 THEN None
          ELSE IF Step[i - 1] = None /\ PathMatches(request_uri, order[i])
          THEN Some(order[i])
          ELSE Step[i - 1]
    IN  Step[Len(order)]

\* a variant in which a location of equal length does not replace the one kept
LongestMatch_StrictlyLonger(locations, order, request_uri) ==
    LET Step[i \in 0..Len(order)] ==
          IF i = 0 THEN [target_location_priority |-> 0, target_location_object |-> None]
          ELSE IF PathMatches(request_uri, order[i])
                  /\ Len(order[i]) > Step[i - 1].target_location_priority
          THEN [target_location_priority |-> Len(order[i]),
                target_location_object |-> Some(order[i])]
          ELSE Step[i - 1]
    IN  Step[Len(order)].target_location_object

\* the loop over pairs(server_conf.locations), visited in the given order;
\* the result is the path of target_location_object, or None
LongestMatch(locations, order, request_uri) ==
    LET Step[i \in 0..Len(order)] ==
          IF i = 0 THEN [target_location_priority |-> 0, target_location_object |-> None]
          ELSE LET path == order[i]
                   st == Step[i - 1]
               IN  IF PathMatches(request_uri, path)
                      /\ Len(path) >= st.target_location_priority
                   THEN [target_location_priority |-> Len(path),
                         target_location_object |-> Some(path)]
                   ELSE st
    IN  Step[Len(order)].target_location_object

\* a variant that lets every address in
IpInCidrs_Open(ip, cidrs) == TRUE
\* ip_util.ip_in_cidrs: a CIDR is the set of addresses it covers
IpInCidrs(ip, cidrs) == \E i \in DOMAIN cidrs : ip \in cidrs[i]

HTTP_MOVED_TEMPORARILY == 302
HTTP_PERMANENT_REDIRECT == 308
HTTP_FORBIDDEN == 403
HTTP_SERVICE_UNAVAILABLE == 503

\* ngx.re.sub(uri, "^" .. path, target, "o") for a path and a target without
\* metacharacters and capture references
RewriteUri(uri, path, target) ==
    IF IsPrefix(path, uri) THEN target \o SubSeq(uri, Len(path) + 1, Len(uri)) ELSE uri

\* a variant that ignores the configured code
Redirect_Always302(url, code) == [status |-> 302, location |-> url]
NoAnswer == [status |-> 0]
Exit(status) == [status |-> status]
Redirect(url, code) == [status |-> code, location |-> url]
HttpsUrl(req) == <<"https://", req.host, req.request_uri>>

\* a variant that redirects before it looks at the whitelist
LocationPolicies_RedirectFirst(location, req) ==
    LET whitelist_cidr == IF Has(location, "whitelist") /\ Has(location.whitelist, "cidr")
                          THEN location.whitelist.cidr ELSE <<>>
        redirect_url == IF Has(location, "redirect") /\ Has(location.redirect, "url")
                        THEN location.redirect.url ELSE ""
        redirect_code0 == IF Has(location, "redirect") /\ Has(location.redirect, "code")
                          THEN location.redirect.code ELSE 0
        redirect_code == IF redirect_code0 = 0 THEN HTTP_MOVED_TEMPORARILY
                         ELSE redirect_code0
        rewrite == IF Has(location, "rewrite") THEN location.rewrite ELSE EmptyTable
        rewrite_app_root == IF Has(rewrite, "appRoot") THEN rewrite.appRoot ELSE ""
        rewrite_force_ssl_redirect ==
            IF Has(rewrite, "forceSSLRedirect") THEN rewrite.forceSSLRedirect ELSE FALSE
        rewrite_ssl_redirect ==
            IF Has(rewrite, "sslRedirect") THEN rewrite.sslRedirect ELSE FALSE
        rewrite_target == IF Has(rewrite, "target") THEN rewrite.target ELSE <<>>
        keep == [answer |-> NoAnswer, uri |-> req.request_uri]
    IN
    IF Has(location, "redirect") /\ redirect_url # ""
    THEN [keep EXCEPT !.answer = Redirect(redirect_url, redirect_code)]
    ELSE IF Has(location, "whitelist") /\ Len(whitelist_cidr) > 0
       /\ ~IpInCidrs(req.the_real_ip, whitelist_cidr)
    THEN [keep EXCEPT !.answer = Exit(HTTP_FORBIDDEN)]
    ELSE IF ~Has(location, "rewrite") THEN keep
    ELSE IF rewrite_app_root # "" /\ req.request_uri = <<"/">>
    THEN [keep EXCEPT !.answer = Redirect(rewrite_app_root, HTTP_MOVED_TEMPORARILY)]
    ELSE IF rewrite_force_ssl_redirect /\ req.scheme # "https"
    THEN [keep EXCEPT !.answer = Redirect(HttpsUrl(req), HTTP_PERMANENT_REDIRECT)]
    ELSE IF rewrite_ssl_redirect /\ req.scheme # "https"
    THEN [keep EXCEPT !.answer = Redirect(HttpsUrl(req), HTTP_PERMANENT_REDIRECT)]
    ELSE IF rewrite_target # <<>>
    THEN [keep EXCEPT !.uri = RewriteUri(req.request_uri, location.path, rewrite_target)]
    ELSE keep

\* The policies of the location found: the answer that ends the request
\* (NoAnswer: none) and the URI after ngx.req.set_uri.
LocationPolicies(location, req) ==
    LET whitelist_cidr == IF Has(location, "whitelist") /\ Has(location.whitelist, "cidr")
                          THEN location.whitelist.cidr ELSE <<>>
        redirect_url == IF Has(location, "redirect") /\ Has(location.redirect, "url")
                        THEN location.redirect.url ELSE ""
        redirect_code0 == IF Has(location, "redirect") /\ Has(location.redirect, "code")
                          THEN location.redirect.code ELSE 0
        redirect_code == IF redirect_code0 = 0 THEN HTTP_MOVED_TEMPORARILY
                         ELSE redirect_code0
        rewrite == IF Has(location, "rewrite") THEN location.rewrite ELSE EmptyTable
        rewrite_app_root == IF Has(rewrite, "appRoot") THEN rewrite.appRoot ELSE ""
        rewrite_force_ssl_redirect ==
            IF Has(rewrite, "forceSSLRedirect") THEN rewrite.forceSSLRedirect ELSE FALSE
        rewrite_ssl_redirect ==
            IF Has(rewrite, "sslRedirect") THEN rewrite.sslRedirect ELSE FALSE
        rewrite_target == IF Has(rewrite, "target") THEN rewrite.target ELSE <<>>
        keep == [answer |-> NoAnswer, uri |-> req.request_uri]
    IN
    IF Has(location, "whitelist") /\ Len(whitelist_cidr) > 0
       /\ ~IpInCidrs(req.the_real_ip, whitelist_cidr)
    THEN [keep EXCEPT !.answer = Exit(HTTP_FORBIDDEN)]
    ELSE IF Has(location, "redirect") /\ redirect_url # ""
    THEN [keep EXCEPT !.answer = Redirect(redirect_url, redirect_code)]
    ELSE IF ~Has(location, "rewrite") THEN keep
    ELSE IF rewrite_app_root # "" /\ req.request_uri = <<"/">>
    THEN [keep EXCEPT !.answer = Redirect(rewrite_app_root, HTTP_MOVED_TEMPORARILY)]
    ELSE IF rewrite_force_ssl_redirect /\ req.scheme # "https"
    THEN [keep EXCEPT !.answer = Redirect(HttpsUrl(req), HTTP_PERMANENT_REDIRECT)]
    ELSE IF rewrite_ssl_redirect /\ req.scheme # "https"
    THEN [keep EXCEPT !.answer = Redirect(HttpsUrl(req), HTTP_PERMANENT_REDIRECT)]
    ELSE IF rewrite_target # <<>>
    THEN [keep EXCEPT !.uri = RewriteUri(req.request_uri, location.path, rewrite_target)]
    ELSE keep

\* a variant that falls back to some server of the registry on a miss
LookupServer_DefaultServer(host) ==
    IF Has(servers, host) THEN Some(servers[host])
    ELSE IF Has(servers, WildcardHost(host)) THEN Some(servers[WildcardHost(host)])
    ELSE IF servers # EmptyTable THEN Some(servers[CHOOSE h \in DOMAIN servers : TRUE])
    ELSE None

\* the server_conf for the host: the literal entry, else the wildcard entry
LookupServer(host) ==
    IF Has(servers, host) THEN Some(servers[host])
    ELSE IF Has(servers, WildcardHost(host)) THEN Some(servers[WildcardHost(host)])
    ELSE None

\* order: the order in which pairs() visits the locations of the server found.
\* The result is [var, answer, uri, location]: ngx.var afterwards, the answer
\* that ended the request (NoAnswer: none), the URI, the path of the location.
handle_server_request(req, var, order) ==
    LET server_conf == LookupServer(req.host)
        miss == [var |-> var, answer |-> NoAnswer, uri |-> req.request_uri,
                 location |-> None]
    IN
    IF server_conf = None THEN miss
    ELSE
      LET target == LongestMatch(server_conf[1].locations, order, req.request_uri)
      IN
      IF target = None THEN miss
      ELSE
        LET location == server_conf[1].locations[target[1]]
            var1 == IF Has(location, "backend")
                    THEN [var EXCEPT !.proxy_upstream_name = location.backend,
                                     !.location_path = location.path]
                    ELSE var
            var2 == IF Has(location, "luaBackend")
                    THEN [var1 EXCEPT !.namespace = location.luaBackend.namespace,
                                      !.ingress_name = location.luaBackend.ingressName,
                                      !.service_name = location.luaBackend.serviceName,
                                      !.service_port = location.luaBackend.servicePort]
                    ELSE var1
            done == LocationPolicies(location, req)
        IN  [var |-> var2, answer |-> done.answer, uri |-> done.uri,
             location |-> target]

\* the orders in which pairs() may visit the locations of the server of a host
Orders(S) == {o \in [1..Cardinality(S) -> S] : \A i, j \in DOMAIN o : i # j => o[i] # o[j]}
VisitOrders(host) ==
    IF LookupServer(host) = None THEN {<<>>}
    ELSE Orders(DOMAIN LookupServer(host)[1].locations)

(***************************************************************************)
(* Request values                                                          *)
(***************************************************************************)
\* nginx variable names are lower case; these are the names the model uses
LowerCase == ("Foo" :> "foo") @@ ("App" :> "app") @@ ("X-Canary" :> "x-canary")
             @@ ("X_Canary" :> "x_canary")
Lower(name) == IF name \in DOMAIN LowerCase THEN LowerCase[name] ELSE name
\* util.replace_special_char(str, "-", "_")
Underscored == ("X-Canary" :> "X_Canary") @@ ("x-canary" :> "x_canary")
replace_special_char(str) == IF str \in DOMAIN Underscored THEN Underscored[str] ELSE str

LookupVar(fields, variable) ==
    LET found == {f \in DOMAIN fields : Lower(replace_special_char(f)) = Lower(variable)}
    IN  IF found = {} \/ variable = "" THEN None
        ELSE Some(fields[CHOOSE f \in found : TRUE])
\* ngx.var["http_" .. name], ngx.var["cookie_" .. name], ngx.var["arg_" .. name]
NgxVarHttp(req, name) == LookupVar(req.headers, name)
NgxVarCookie(req, name) == LookupVar(req.cookies, name)
NgxVarArg(req, name) == LookupVar(req.args, name)
\* resty.cookie get: the cookie of exactly this name
CookieGet(req, name) == IF Has(req.cookies, name) THEN Some(req.cookies[name]) ELSE None

\* digest_util.md5_digest: the hex digest, tabulated for the host paths in use
Md5Hex == ("release.com/" :> "127b3f5249e5fb97d1e6ba74ca6fa746")
          @@ ("release.com/new" :> "1585b2a54123f04d3e272d98e27aa4de")
md5_digest(message) == Md5Hex[message]

\* ngx.re.match(subject, regex) ~= nil.  A regex is [alternatives |-> the set
\* of literals it is the alternation of], or [invalid |-> TRUE] when it does
\* not compile (ngx.re.match then returns nil and an error).
RegexFound(subject, regex) ==
    /\ ~Has(regex, "invalid")
    /\ \E a \in regex.alternatives : Occurrences(a, subject) # {}

(***************************************************************************)
(* Release selector                                                        *)
(***************************************************************************)
BalancerRef(name) == <<name, balancers[name]>>
Nothing == [balancer |-> None, name |-> None]
Chosen(name) == [balancer |-> Some(BalancerRef(name)), name |-> Some(name)]

shuffle_alternative_release_balancer(primary_backend_name, alternative_backend_name) ==
    IF Has(balancers, primary_backend_name) THEN Chosen(primary_backend_name)
    ELSE IF Has(balancers, alternative_backend_name) THEN Chosen(alternative_backend_name)
    ELSE Nothing

\* The Set-Cookie the call adds, if any; ph is ngx.get_phase().
set_alternative_release_backend_cookie(cookie_name, cookie_value, req, var, ph) ==
    IF cookie_name = None \/ cookie_value = None THEN {}
    ELSE IF ph # "balancer" THEN {}
    ELSE {[key |-> cookie_name[1], value |-> cookie_value[1], path |-> var.location_path,
           httponly |-> TRUE, secure |-> (req.scheme = "https"), max_age |-> 28800]}

\* What a routing function returns: the balancer and the name (None: nil),
\* the percentage math.random(100) was compared with (None: it was not called),
\* the Set-Cookie added, and whether the Lua code raised an error.
Routed(choice, percent, set_cookie) ==
    [balancer |-> choice.balancer, name |-> choice.name, percent |-> percent,
     set_cookie |-> set_cookie, error |-> FALSE]
Quiet(choice) == Routed(choice, None, {})
Raised == [balancer |-> None, name |-> None, percent |-> None, set_cookie |-> {},
           error |-> TRUE]

\* the value of the request that a match rule looks at ("" when missing)
RequestValue(match_config, req) ==
    LET request_value ==
          IF match_config.ticket = "header"
          THEN NgxVarHttp(req, replace_special_char(match_config.key))
          ELSE IF match_config.ticket = "cookie" THEN NgxVarCookie(req, match_config.key)
          ELSE IF match_config.ticket = "query" THEN NgxVarArg(req, match_config.key)
          ELSE None
    IN  IF request_value = None THEN <<>> ELSE request_value[1]

\* a variant that compares a regex rule as if it were exact
MatchSuccess_ExactOnly(match_config, req) ==
    RequestValue(match_config, req) = match_config.value
MatchSuccess(match_config, req) ==
    IF match_config.pattern = "exact"
    THEN RequestValue(match_config, req) = match_config.value
    ELSE IF match_config.pattern = "regex"
    THEN RegexFound(RequestValue(match_config, req), match_config.value)
    ELSE FALSE

\* The locals of route_to_alternative_release_balancer once it has parsed the
\* policy and read the sticky cookie of the request.
ParsedPolicy(traffic_shaping_policy, alternative_backend, current_backend_name, req) ==
    [alternative_weight_enabled |-> Has(traffic_shaping_policy, "serviceWeight"),
     alternative_weight_percent |->
        IF ~Has(traffic_shaping_policy, "serviceWeight") THEN -1
        ELSE IF Has(traffic_shaping_policy.serviceWeight, alternative_backend)
        THEN traffic_shaping_policy.serviceWeight[alternative_backend]
        ELSE IF Has(traffic_shaping_policy.serviceWeight, current_backend_name)
        THEN 100 - traffic_shaping_policy.serviceWeight[current_backend_name]
        ELSE -1,
     alternative_match_enabled |-> Has(traffic_shaping_policy, "serviceMatch"),
     alternative_match_config |->
        IF /\ Has(traffic_shaping_policy, "serviceMatch")
           /\ Has(traffic_shaping_policy.serviceMatch, alternative_backend)
        THEN Some(traffic_shaping_policy.serviceMatch[alternative_backend]) ELSE None,
     current_match_config |->
        IF /\ Has(traffic_shaping_policy, "serviceMatch")
           /\ ~Has(traffic_shaping_policy.serviceMatch, alternative_backend)
           /\ Has(traffic_shaping_policy.serviceMatch, current_backend_name)
        THEN Some(traffic_shaping_policy.serviceMatch[current_backend_name]) ELSE None,
     backend_cookie_name |->
        IF Has(traffic_shaping_policy, "hostPath")
        THEN Some(md5_digest(traffic_shaping_policy.hostPath)) ELSE None,
     backend_cookie_value |->
        IF Has(traffic_shaping_policy, "hostPath")
        THEN CookieGet(req, md5_digest(traffic_shaping_policy.hostPath)) ELSE None]

\* check the target balancer cookie
StickyRouted(policy, target, req, var, ph) ==
    Routed(target, None,
           IF policy.alternative_weight_enabled
           THEN set_alternative_release_backend_cookie(policy.backend_cookie_name,
                                                       target.name, req, var, ph)
           ELSE {})
\* a variant that does not honour the cookie
RouteByCookie_Ignored(policy, current_backend_name, alternative_backend, req, var, ph) ==
    Quiet(Nothing)
RouteByCookie(policy, current_backend_name, alternative_backend, req, var, ph) ==
    IF policy.backend_cookie_value[1] = current_backend_name
    THEN StickyRouted(policy,
                      shuffle_alternative_release_balancer(current_backend_name,
                                                           alternative_backend),
                      req, var, ph)
    ELSE IF policy.backend_cookie_value[1] = alternative_backend
    THEN StickyRouted(policy,
                      shuffle_alternative_release_balancer(alternative_backend,
                                                           current_backend_name),
                      req, var, ph)
    ELSE Quiet(Nothing)     \* invalid upstream backend name

\* check alternative backend service weight; r is what math.random(100) returns
\* a variant that compares the draw with < instead of <=
WeightTarget_Strict(policy, balancer, current_backend_name, alternative_backend, r) ==
    IF policy.alternative_weight_percent <= 0
    THEN shuffle_alternative_release_balancer(current_backend_name, alternative_backend)
    ELSE IF policy.alternative_weight_percent >= 100
    THEN shuffle_alternative_release_balancer(alternative_backend, current_backend_name)
    ELSE IF r < policy.alternative_weight_percent
    THEN shuffle_alternative_release_balancer(alternative_backend, current_backend_name)
    ELSE [balancer |-> Some(balancer), name |-> Some(current_backend_name)]
WeightTarget(policy, balancer, current_backend_name, alternative_backend, r) ==
    IF policy.alternative_weight_percent <= 0
    THEN shuffle_alternative_release_balancer(current_backend_name, alternative_backend)
    ELSE IF policy.alternative_weight_percent >= 100
    THEN shuffle_alternative_release_balancer(alternative_backend, current_backend_name)
    ELSE IF r <= policy.alternative_weight_percent
    THEN shuffle_alternative_release_balancer(alternative_backend, current_backend_name)
    ELSE [balancer |-> Some(balancer), name |-> Some(current_backend_name)]
WeightRouted(policy, target, req, var, ph) ==
    Routed(target,
           IF policy.alternative_weight_percent > 0 /\ policy.alternative_weight_percent < 100
           THEN Some(policy.alternative_weight_percent) ELSE None,
           set_alternative_release_backend_cookie(policy.backend_cookie_name,
                                                  target.name, req, var, ph))
RouteByWeight(policy, balancer, current_backend_name, alternative_backend, req, var, r, ph) ==
    IF ~policy.alternative_weight_enabled THEN Quiet(Nothing)
    ELSE WeightRouted(policy,
                      WeightTarget(policy, balancer, current_backend_name,
                                   alternative_backend, r),
                      req, var, ph)

\* check alternative backend service match
\* a variant that routes by the weights whether the rule holds or not
RouteByMatch_Unmatched(policy, balancer, current_backend_name, alternative_backend, req, var, r, ph) ==
    IF policy.alternative_weight_enabled
    THEN RouteByWeight(policy, balancer, current_backend_name, alternative_backend,
                       req, var, r, ph)
    ELSE Quiet([balancer |-> Some(balancer), name |-> Some(current_backend_name)])
\* a variant in which a trusted rule is final and a failed one leaves the choice to the weights
RouteByMatch_RuleFirst(policy, balancer, current_backend_name, alternative_backend, req, var, r, ph) == IF policy.alternative_match_config # None THEN (IF MatchSuccess(policy.alternative_match_config[1], req) THEN Quiet(shuffle_alternative_release_balancer(alternative_backend, current_backend_name)) ELSE IF policy.alternative_weight_enabled THEN RouteByWeight(policy, balancer, current_backend_name, alternative_backend, req, var, r, ph) ELSE Quiet(shuffle_alternative_release_balancer(current_backend_name, alternative_backend))) ELSE IF policy.current_match_config # None THEN (IF MatchSuccess(policy.current_match_config[1], req) THEN Quiet(shuffle_alternative_release_balancer(current_backend_name, alternative_backend)) ELSE IF policy.alternative_weight_enabled THEN RouteByWeight(policy, balancer, current_backend_name, alternative_backend, req, var, r, ph) ELSE Quiet(shuffle_alternative_release_balancer(alternative_backend, current_backend_name))) ELSE Raised
RouteByMatch(policy, balancer, current_backend_name, alternative_backend, req, var, r, ph) ==
    IF policy.alternative_match_config # None
    THEN IF ~MatchSuccess(policy.alternative_match_config[1], req)
         THEN Quiet(shuffle_alternative_release_balancer(current_backend_name,
                                                         alternative_backend))
         ELSE IF ~policy.alternative_weight_enabled
         THEN Quiet(shuffle_alternative_release_balancer(alternative_backend,
                                                         current_backend_name))
         ELSE RouteByWeight(policy, balancer, current_backend_name, alternative_backend,
                            req, var, r, ph)
    ELSE IF policy.current_match_config # None
    THEN IF ~MatchSuccess(policy.current_match_config[1], req)
         THEN Quiet(shuffle_alternative_release_balancer(alternative_backend,
                                                         current_backend_name))
         ELSE IF ~policy.alternative_weight_enabled
         THEN Quiet(shuffle_alternative_release_balancer(current_backend_name,
                                                         alternative_backend))
         ELSE RouteByWeight(policy, balancer, current_backend_name, alternative_backend,
                            req, var, r, ph)
    ELSE Raised             \* match_config is nil: indexing it raises

ReleaseRoute(policy, balancer, current_backend_name, alternative_backend, req, var, r, ph) ==
    IF policy.backend_cookie_value # None
    THEN RouteByCookie(policy, current_backend_name, alternative_backend, req, var, ph)
    ELSE IF policy.alternative_match_enabled
    THEN RouteByMatch(policy, balancer, current_backend_name, alternative_backend,
                      req, var, r, ph)
    ELSE RouteByWeight(policy, balancer, current_backend_name, alternative_backend,
                       req, var, r, ph)

\* balancer: the reference of the primary's instance; r: what math.random(100)
\* returns if it is called; ph: the phase the handler runs in
route_to_alternative_release_balancer(balancer, current_backend_name, req, var, r, ph) ==
    IF ~Has(instances[balancer], "alternative_backends") THEN Quiet(Nothing)
    ELSE IF Len(instances[balancer].alternative_backends) = 0 THEN Quiet(Nothing)
    ELSE IF ~Has(instances[balancer], "traffic_shaping_policy") THEN Quiet(Nothing)
    ELSE ReleaseRoute(ParsedPolicy(instances[balancer].traffic_shaping_policy,
                                   instances[balancer].alternative_backends[1],
                                   current_backend_name, req),
                      balancer, current_backend_name,
                      instances[balancer].alternative_backends[1], req, var, r, ph)

\* a variant that never looks at the header
CanaryRoute_NoHeader(traffic_shaping_policy, header, cookie, r) ==
    IF cookie = Some(<<"a", "l", "w", "a", "y", "s">>)
    THEN [route |-> TRUE, percent |-> None, error |-> FALSE]
    ELSE IF cookie = Some(<<"n", "e", "v", "e", "r">>)
    THEN [route |-> FALSE, percent |-> None, error |-> FALSE]
    ELSE [route |-> r <= traffic_shaping_policy.weight,
          percent |-> Some(traffic_shaping_policy.weight), error |-> FALSE]

\* The legacy canary: [route, percent, error].  header and cookie are the
\* values of the request for the names the policy gives (None: nil).
CanaryRoute(traffic_shaping_policy, header, cookie, r) ==
    LET no == [route |-> FALSE, percent |-> None, error |-> FALSE]
        yes == [route |-> TRUE, percent |-> None, error |-> FALSE]
        by_weight == [route |-> r <= traffic_shaping_policy.weight,
                      percent |-> Some(traffic_shaping_policy.weight), error |-> FALSE]
        by_cookie == IF cookie = None THEN by_weight
                     ELSE IF cookie[1] = <<"a", "l", "w", "a", "y", "s">> THEN yes
                     ELSE IF cookie[1] = <<"n", "e", "v", "e", "r">> THEN no
                     ELSE by_weight
    IN
    IF header = None THEN by_cookie
    ELSE IF Has(traffic_shaping_policy, "headerValue")
            /\ Len(traffic_shaping_policy.headerValue) > 0
    THEN IF traffic_shaping_policy.headerValue = header[1] THEN yes ELSE by_cookie
    ELSE IF Has(traffic_shaping_policy, "headerPattern")
    THEN IF RegexFound(header[1], traffic_shaping_policy.headerPattern) THEN yes
         ELSE IF Has(traffic_shaping_policy.headerPattern, "invalid") THEN no
         ELSE by_cookie
    ELSE IF header[1] = <<"a", "l", "w", "a", "y", "s">> THEN yes
    ELSE IF header[1] = <<"n", "e", "v", "e", "r">> THEN no
    ELSE by_cookie

CanaryPolicy(traffic_shaping_policy, req, r) ==
    IF ~Has(traffic_shaping_policy, "header") \/ ~Has(traffic_shaping_policy, "cookie")
       \/ ~Has(traffic_shaping_policy, "weight")
    THEN [route |-> FALSE, percent |-> None, error |-> TRUE]
    ELSE CanaryRoute(traffic_shaping_policy,
                     NgxVarHttp(req, replace_special_char(traffic_shaping_policy.header)),
                     NgxVarCookie(req, traffic_shaping_policy.cookie), r)

route_to_alternative_balancer(balancer, req, r) ==
    IF ~Has(instances[balancer], "alternative_backends")
    THEN [route |-> FALSE, percent |-> None, error |-> FALSE]
    ELSE IF Len(instances[balancer].alternative_backends) = 0
    THEN [route |-> FALSE, percent |-> None, error |-> FALSE]
    ELSE IF ~Has(balancers, instances[balancer].alternative_backends[1])
    THEN [route |-> FALSE, percent |-> None, error |-> FALSE]
    ELSE IF ~Has(instances[BalancerRef(instances[balancer].alternative_backends[1])],
                 "traffic_shaping_policy")
    THEN [route |-> FALSE, percent |-> None, error |-> FALSE]
    ELSE CanaryPolicy(instances[BalancerRef(instances[balancer].alternative_backends[1])]
                          .traffic_shaping_policy, req, r)

\* get_balancer: [balancer, var, ctx, percent, set_cookie, error]; balancer is the
\* reference returned (None: nil), var and ctx are ngx.var and ngx.ctx afterwards.
Unselected(var, ctx) ==
    [balancer |-> None, var |-> var, ctx |-> ctx, percent |-> None,
     set_cookie |-> {}, error |-> FALSE]
SelectedBalancer(var, ctx, balancer, name, percent, set_cookie) ==
    [balancer |-> Some(balancer),
     var |-> IF name = None THEN var
             ELSE [var EXCEPT !.proxy_alternative_upstream_name = name[1]],
     ctx |-> Put(ctx, "balancer", balancer), percent |-> percent,
     set_cookie |-> set_cookie, error |-> FALSE]

\* the primary has a balancer: release is what
\* route_to_alternative_release_balancer returned, legacy what
\* route_to_alternative_balancer returns if it is called
SelectRouted(var, ctx, balancer, release, legacy) ==
    IF release.error THEN [Unselected(var, ctx) EXCEPT !.error = TRUE]
    ELSE IF release.balancer # None
    THEN SelectedBalancer(var, ctx, release.balancer[1], release.name, release.percent,
                          release.set_cookie)
    ELSE IF legacy.error THEN [Unselected(var, ctx) EXCEPT !.error = TRUE]
    ELSE IF legacy.route
    THEN SelectedBalancer(var, ctx,
                          BalancerRef(instances[balancer].alternative_backends[1]),
                          Some(instances[balancer].alternative_backends[1]),
                          legacy.percent, {})
    ELSE SelectedBalancer(var, ctx, balancer, None, legacy.percent, {})

\* a variant without the fall-through to the first alternative
get_balancer_NoFallThrough(req, var, ctx, r, ph) ==
    IF Has(ctx, "balancer")
    THEN [Unselected(var, ctx) EXCEPT !.balancer = Some(ctx.balancer)]
    ELSE IF ~Has(balancers, var.proxy_upstream_name)
    THEN Unselected(var, ctx)
    ELSE SelectRouted(var, ctx, BalancerRef(var.proxy_upstream_name),
                      route_to_alternative_release_balancer(
                          BalancerRef(var.proxy_upstream_name), var.proxy_upstream_name,
                          req, var, r, ph),
                      route_to_alternative_balancer(BalancerRef(var.proxy_upstream_name),
                                                    req, r))
\* a variant that decides again in every phase
get_balancer_NoCache(req, var, ctx, r, ph) ==
    IF ~Has(balancers, var.proxy_upstream_name)
    THEN IF ~Has(alternative_backends, var.proxy_upstream_name)
         THEN Unselected(var, ctx)
         ELSE IF Len(alternative_backends[var.proxy_upstream_name]) = 0
         THEN Unselected(var, ctx)
         ELSE IF Has(balancers, alternative_backends[var.proxy_upstream_name][1])
         THEN SelectedBalancer(
                  var, ctx, BalancerRef(alternative_backends[var.proxy_upstream_name][1]),
                  Some(alternative_backends[var.proxy_upstream_name][1]), None, {})
         ELSE Unselected(var, ctx)
    ELSE SelectRouted(var, ctx, BalancerRef(var.proxy_upstream_name),
                      route_to_alternative_release_balancer(
                          BalancerRef(var.proxy_upstream_name), var.proxy_upstream_name,
                          req, var, r, ph),
                      route_to_alternative_balancer(BalancerRef(var.proxy_upstream_name),
                                                    req, r))

get_balancer(req, var, ctx, r, ph) ==
    IF Has(ctx, "balancer")
    THEN [Unselected(var, ctx) EXCEPT !.balancer = Some(ctx.balancer)]
    ELSE IF ~Has(balancers, var.proxy_upstream_name)
    THEN IF ~Has(alternative_backends, var.proxy_upstream_name)
         THEN Unselected(var, ctx)
         ELSE IF Len(alternative_backends[var.proxy_upstream_name]) = 0
         THEN Unselected(var, ctx)
         ELSE IF Has(balancers, alternative_backends[var.proxy_upstream_name][1])
         THEN SelectedBalancer(
                  var, ctx, BalancerRef(alternative_backends[var.proxy_upstream_name][1]),
                  Some(alternative_backends[var.proxy_upstream_name][1]), None, {})
         ELSE Unselected(var, ctx)
    ELSE SelectRouted(var, ctx, BalancerRef(var.proxy_upstream_name),
                      route_to_alternative_release_balancer(
                          BalancerRef(var.proxy_upstream_name), var.proxy_upstream_name,
                          req, var, r, ph),
                      route_to_alternative_balancer(BalancerRef(var.proxy_upstream_name),
                                                    req, r))

(***************************************************************************)
(* Phase handlers                                                          *)
(***************************************************************************)
\* ngx.var as the static configuration leaves it when the handler starts
InitialVar(req) ==
    [proxy_upstream_name |-> req.static_upstream,
     proxy_alternative_upstream_name |-> "",
     location_path |-> <<>>, namespace |-> "", ingress_name |-> "",
     service_name |-> "", service_port |-> "", uri |-> req.request_uri]

NoRequest == [host |-> <<>>]
\* ngx.var while no request is in flight
NoVar == InitialVar([static_upstream |-> "-", request_uri |-> <<>>])
NoResponse == [status |-> 0, set_cookie |-> {}, peer |-> None]
\* a Lua error in the rewrite handler ends the request with 500
LuaError == [status |-> 500]

\* The draws to tell apart.  math.random(100) is called at most once in a
\* handler, whether it is called does not depend on what it returns, and what
\* it returns is compared once, with a percentage: one draw at or below the
\* percentage and one above it stand for the hundred.  0: no draw.
Draws(percent) ==
    IF percent = None THEN {0}
    ELSE IF percent[1] < 1 THEN {1}
    ELSE IF percent[1] >= 100 THEN {100}
    ELSE {percent[1], percent[1] + 1}

\* a variant that lets a request without a balancer through
RewriteSelected_NoUnavailable(selected) ==
    [var |-> selected.var, ctx |-> selected.ctx, percent |-> selected.percent,
     response |-> (IF selected.error THEN LuaError ELSE NoAnswer) @@ NoResponse]

\* _M.rewrite: [var, ctx, response, percent] when the handler returns
RewriteSelected(selected) ==
    [var |-> selected.var, ctx |-> selected.ctx, percent |-> selected.percent,
     response |-> (IF selected.error THEN LuaError
                   ELSE IF selected.balancer = None THEN Exit(HTTP_SERVICE_UNAVAILABLE)
                   ELSE NoAnswer) @@ NoResponse]
RewriteRouted(req, routed, r) ==
    IF routed.answer # NoAnswer
    THEN [var |-> [routed.var EXCEPT !.uri = routed.uri], ctx |-> EmptyTable,
          percent |-> None, response |-> routed.answer @@ NoResponse]
    ELSE RewriteSelected(get_balancer(req, [routed.var EXCEPT !.uri = routed.uri],
                                      EmptyTable, r, "rewrite"))
rewrite(req, order, r) ==
    RewriteRouted(req, handle_server_request(req, InitialVar(req), order), r)

Rewritten(req, done) ==
    /\ request' = req
    /\ ngx_var' = done.var
    /\ ngx_ctx' = done.ctx
    /\ response' = done.response
    /\ instances' = Collect(balancers, instances,
                            IF Has(done.ctx, "balancer") THEN {done.ctx.balancer} ELSE {})

Rewrite(requests) ==
    /\ phase = "idle"
    /\ \E req \in requests :
         \E order \in VisitOrders(req.host) :
           \E r \in Draws(rewrite(req, order, 1).percent) :
              Rewritten(req, rewrite(req, order, r))
    /\ phase' = "rewrite"
    /\ UNCHANGED <<controller_vars, now, publisher_vars, balancers, backends_with_external_name,
                   backends_last_synced_at, alternative_backends, servers>>

\* balancer:balance(): one of the peers of the instance, or nil
Peers(ctx) ==
    IF ~Has(ctx, "balancer") THEN {None}
    ELSE IF instances[ctx.balancer].endpoints = <<>> THEN {None}
    ELSE {Some(instances[ctx.balancer].endpoints[i]) :
             i \in DOMAIN instances[ctx.balancer].endpoints}

\* _M.balance
balance(selected) ==
    /\ ngx_var' = selected.var
    /\ ngx_ctx' = selected.ctx
    /\ \E peer \in Peers(selected.ctx) :
         response' = [response EXCEPT
                        !.set_cookie = @ \cup selected.set_cookie,
                        !.peer = IF selected.error \/ selected.balancer = None
                                 THEN None ELSE peer]

Balance ==
    /\ phase = "rewrite"
    /\ response.status = 0
    /\ \E r \in Draws(get_balancer(request, ngx_var, ngx_ctx, 1, "balancer").percent) :
         balance(get_balancer(request, ngx_var, ngx_ctx, r, "balancer"))
    /\ phase' = "balancer"
    /\ UNCHANGED <<controller_vars, now, publisher_vars, registry_vars, servers, request>>

\* _M.log: neither get_balancer's result nor after_balance changes the worker;
\* the request ends with this handler, and its ngx.var and ngx.ctx with it
log(selected) ==
    /\ request' = NoRequest
    /\ ngx_var' = NoVar
    /\ ngx_ctx' = EmptyTable
    /\ response' = NoResponse
    /\ instances' = Collect(balancers, instances, {})

Log ==
    /\ IF phase = "rewrite" THEN response.status # 0 ELSE phase = "balancer"
    /\ \E r \in Draws(get_balancer(request, ngx_var, ngx_ctx, 1, "log").percent) :
         log(get_balancer(request, ngx_var, ngx_ctx, r, "log"))
    /\ phase' = "idle"
    /\ UNCHANGED <<controller_vars, now, publisher_vars, balancers, backends_with_external_name,
                   backends_last_synced_at, alternative_backends, servers>>

(***************************************************************************)
(* Clock and initial state                                                 *)
(***************************************************************************)
\* The worker starts StartTime seconds after the epoch and is followed for
\* Horizon seconds.
Horizon == 1
StartTime == BACKENDS_FORCE_SYNC_INTERVAL + 1
Tick(horizon) ==
    /\ now < StartTime + horizon
    /\ now' = now + BACKENDS_SYNC_INTERVAL
    /\ UNCHANGED <<controller_vars, publisher_vars, registry_vars, servers, request_vars>>

\* The state after the module is loaded and init_worker has run against a
\* publisher that holds nothing yet (both syncs then leave the registries empty).
Init ==
    /\ releaseIngresses = <<>>
    /\ upstreams = EmptyTable
    /\ now = StartTime
    /\ backends_data = NoData
    /\ servers_data = NoData
    /\ raw_backends_last_synced_at = 1
    /\ balancers = EmptyTable
    /\ instances = EmptyTable
    /\ backends_with_external_name = EmptyTable
    /\ backends_last_synced_at = 0
    /\ alternative_backends = EmptyTable
    /\ servers = EmptyTable
    /\ request = NoRequest
    /\ phase = "idle"
    /\ ngx_var = NoVar
    /\ ngx_ctx = EmptyTable
    /\ response = NoResponse

(***************************************************************************)
(* Tables and requests of the release scenarios (test/e2e/lua)             *)
(***************************************************************************)
Str_bar == <<"b", "a", "r">>
Str_rab == <<"r", "a", "b">>
Str_baar == <<"b", "a", "a", "r">>

Endpoint(address) == [address |-> address, port |-> "80"]
EndpointsOf ==
    [name \in {"old", "new", "wild", "longest", "literal", "ext"} |->
        IF name = "new" THEN <<Endpoint("10.0.0.2")>> ELSE <<Endpoint("10.0.0.1")>>]
\* the canary fields of a policy that sets none of them
NoCanary == [weight |-> 0, header |-> "", headerValue |-> <<>>, cookie |-> ""]
Backend(name, up, fields) ==
    [name |-> name, endpoints |-> IF up THEN EndpointsOf[name] ELSE <<>>] @@ fields

\* a release of old and new at release.com/: both carry the policy of the ingress
ReleaseHostPath == "release.com/"
ReleasePolicy(fields) == [hostPath |-> ReleaseHostPath] @@ fields @@ NoCanary
ReleaseTable(policy, old_up, new_up) ==
    <<Backend("old", old_up, [alternativeBackends |-> <<"new">>,
                              trafficShapingPolicy |-> policy]),
      Backend("new", new_up, [alternativeBackends |-> <<"old">>,
                              trafficShapingPolicy |-> policy])>>

Weight2080 == ReleasePolicy([serviceWeight |-> ("old" :> 20) @@ ("new" :> 80)])
Weight0100 == ReleasePolicy([serviceWeight |-> ("old" :> 0) @@ ("new" :> 100)])
WeightNew24 == ReleasePolicy([serviceWeight |-> ("new" :> 24)])
MatchNewHeader ==
    ReleasePolicy([serviceMatch |->
        ("new" :> [ticket |-> "header", pattern |-> "regex", key |-> "Foo",
                   value |-> [alternatives |-> {Str_bar, Str_rab}]])])
MatchNewQuery ==
    ("new" :> [ticket |-> "query", pattern |-> "exact", key |-> "foo", value |-> Str_bar])
MatchAndWeight5050 ==
    ReleasePolicy([serviceMatch |-> MatchNewQuery,
                   serviceWeight |-> ("old" :> 50) @@ ("new" :> 50)])
MatchAndWeight0100 ==
    ReleasePolicy([serviceMatch |-> MatchNewQuery,
                   serviceWeight |-> ("old" :> 0) @@ ("new" :> 100)])

\* a rule for each service
MatchBoth ==
    ReleasePolicy([serviceMatch |->
        ("new" :> [ticket |-> "header", pattern |-> "exact", key |-> "Foo",
                   value |-> Str_bar])
        @@ ("old" :> [ticket |-> "query", pattern |-> "exact", key |-> "foo",
                      value |-> Str_bar])])

ReleasePolicies == {Weight2080, Weight0100, WeightNew24, MatchNewHeader, MatchBoth,
                    MatchAndWeight5050, MatchAndWeight0100}
\* every policy with both services up, and three of them with services scaled
\* to zero endpoints
ReleaseTables ==
    {Json(ReleaseTable(policy, TRUE, TRUE)) : policy \in ReleasePolicies}
    \cup {Json(ReleaseTable(policy, old_up, new_up)) :
            policy \in {Weight2080, MatchNewHeader, MatchAndWeight5050},
            old_up \in BOOLEAN, new_up \in BOOLEAN}

Host_release == <<"release", "com">>
Path_root == <<"/">>
ReleaseServers(backend) ==
    Json(<<[hostname |-> Host_release,
            locations |-> <<[path |-> Path_root, backend |-> backend]>>]>>)
ReleaseServerTables == {ReleaseServers("old"), ReleaseServers("new")}

StickyCookie == md5_digest(ReleaseHostPath)
ReleaseRequest(headers, cookies, args) ==
    [host |-> Host_release, request_uri |-> Path_root, scheme |-> "http",
     the_real_ip |-> "192.0.2.1", headers |-> headers, cookies |-> cookies,
     args |-> args, static_upstream |-> "-"]
NoTicket == [headers |-> EmptyTable, cookies |-> EmptyTable, args |-> EmptyTable]
HeaderTicket(value) == [NoTicket EXCEPT !.headers = [Foo |-> value]]
QueryTicket(value) == [NoTicket EXCEPT !.args = [foo |-> value]]
Sticky(value) == StickyCookie :> value
\* requests without the sticky cookie, and requests with it: naming either
\* service, or none of them
ReleaseRequests ==
    {ReleaseRequest(ticket.headers, ticket.cookies, ticket.args) :
        ticket \in {NoTicket, HeaderTicket(Str_bar), HeaderTicket(Str_baar),
                    QueryTicket(Str_bar)}}
    \cup {ReleaseRequest(ticket.headers, ticket.cookies @@ Sticky(value), ticket.args) :
            ticket \in {NoTicket, HeaderTicket(Str_bar)},
            value \in {"old", "new", "bogus"}}

(***************************************************************************)
(* Spec: the worker serving the release scenarios                          *)
(***************************************************************************)
Next ==
    \/ Tick(Horizon)
    \/ SyncBackends(ReleaseTables)
    \/ SyncBackendsWithExternalName
    \/ SyncServers(ReleaseServerTables)
    \/ Rewrite(ReleaseRequests)
    \/ Balance
    \/ Log

Spec == Init /\ [][Next]_vars

(***************************************************************************)
(* Tables and requests of the dynamic-server scenarios (test/e2e/lua)      *)
(***************************************************************************)
Plain(name, up) == Backend(name, up, [trafficShapingPolicy |-> NoCanary])
\* the release of old and new next to the services of the bar.com servers
RouterTable(old_up, new_up, others_up) ==
    ReleaseTable(Weight2080, old_up, new_up)
    \o <<Plain("wild", others_up), Plain("longest", others_up),
         Plain("literal", others_up)>>
RouterTables ==
    {Json(RouterTable(TRUE, TRUE, TRUE)), Json(RouterTable(FALSE, TRUE, TRUE)),
     Json(RouterTable(FALSE, FALSE, TRUE)), Json(RouterTable(FALSE, FALSE, FALSE))}

Path_longest == <<"/", "l", "o", "n", "g", "e", "s", "t">>
Path_private == <<"/", "p", "r", "i", "v", "a", "t", "e">>
Path_moved == <<"/", "m", "o", "v", "e", "d">>
Host_wildcard == <<"*", "bar", "com">>
Host_wc == <<"wc", "bar", "com">>
Host_x == <<"x", "bar", "com">>
Host_ab == <<"a", "b", "bar", "com">>
Host_wildcard_b == <<"*", "b", "bar", "com">>
Host_unknown == <<"unknown", "org">>
Host_localhost == <<"localhost">>

Location(path, backend) == [path |-> path, backend |-> backend]
Url_moved == "http://moved.example/"
Cidrs_private == <<{"10.1.1.1", "10.1.1.2"}>>
\* release.com with the policies given for its locations /private and /moved
ReleaseServerWith(private, moved) ==
    [hostname |-> Host_release,
     locations |-> <<Location(Path_root, "old"),
                     Location(Path_private, "old") @@ private,
                     Location(Path_moved, "old") @@ moved>>]
\* /private behind a whitelist (and rewritten to /), /moved redirected
ReleaseServer ==
    ReleaseServerWith([whitelist |-> [cidr |-> Cidrs_private],
                       rewrite |-> [target |-> Path_root]],
                      [redirect |-> [url |-> Url_moved, code |-> 0]])
\* the whitelist emptied and the redirect URL blanked on /private; a redirect
\* with a code of its own on /moved
ReleaseServerOpened ==
    ReleaseServerWith([whitelist |-> [cidr |-> <<>>],
                       redirect |-> [url |-> "", code |-> 301]],
                      [redirect |-> [url |-> Url_moved, code |-> 301]])
\* the whitelist removed from /private; /moved behind the whitelist, with a
\* redirect that has no code
ReleaseServerMoved ==
    ReleaseServerWith(EmptyTable,
                      [whitelist |-> [cidr |-> Cidrs_private],
                       redirect |-> [url |-> Url_moved]])
WildcardServer ==
    [hostname |-> Host_wildcard,
     locations |-> <<Location(Path_root, "wild"), Location(Path_longest, "longest")>>]
\* a literal server that the wildcard server covers, with one location only
LiteralServer ==
    [hostname |-> Host_wc, locations |-> <<Location(Path_longest, "literal")>>]
InnerWildcardServer ==
    [hostname |-> Host_wildcard_b, locations |-> <<Location(Path_root, "literal")>>]
RouterServerTables ==
    {Json(<<ReleaseServer, WildcardServer, LiteralServer>>),
     Json(<<WildcardServer, InnerWildcardServer>>),
     Json(<<ReleaseServerOpened>>), Json(<<ReleaseServerMoved>>)}

RouterRequest(host, request_uri, the_real_ip, static_upstream) ==
    [host |-> host, request_uri |-> request_uri, scheme |-> "http",
     the_real_ip |-> the_real_ip, headers |-> EmptyTable, cookies |-> EmptyTable,
     args |-> EmptyTable, static_upstream |-> static_upstream]
RouterRequests ==
    {RouterRequest(Host_release, Path_root, "192.0.2.1", "-"),
     RouterRequest(Host_release, Path_private, "192.0.2.1", "-"),
     RouterRequest(Host_release, Path_private, "10.1.1.1", "-"),
     RouterRequest(Host_release, Path_moved, "192.0.2.1", "-"),
     RouterRequest(Host_release, Path_moved, "10.1.1.1", "-"),
     RouterRequest(Host_wc, Path_root, "192.0.2.1", "-"),
     RouterRequest(Host_wc, Path_longest, "192.0.2.1", "-"),
     RouterRequest(Host_x, Path_root, "192.0.2.1", "-"),
     RouterRequest(Host_x, Path_longest, "192.0.2.1", "-"),
     RouterRequest(Host_x, <<"/", "f", "o", "o">> \o Path_longest, "192.0.2.1", "-"),
     RouterRequest(Host_ab, Path_root, "192.0.2.1", "-"),
     RouterRequest(Host_unknown, Path_root, "192.0.2.1", "-"),
     RouterRequest(Host_unknown, Path_root, "192.0.2.1", "wild"),
     RouterRequest(Host_unknown, Path_root, "192.0.2.1", "old"),
     RouterRequest(Host_localhost, Path_root, "192.0.2.1", "wild")}

(***************************************************************************)
(* SpecRouter: the worker serving the dynamic-server scenarios             *)
(***************************************************************************)
NextRouter ==
    \/ Tick(Horizon)
    \/ SyncBackends(RouterTables)
    \/ SyncBackendsWithExternalName
    \/ SyncServers(RouterServerTables)
    \/ Rewrite(RouterRequests)
    \/ Balance
    \/ Log

SpecRouter == Init /\ [][NextRouter]_vars

(***************************************************************************)
(* SpecTies: a server whose locations /private and /longest have paths of  *)
(* the same length, and request URIs in which both paths occur             *)
(***************************************************************************)
TieServer ==
    [hostname |-> Host_release,
     locations |-> <<Location(Path_root, "wild"), Location(Path_private, "old"),
                     Location(Path_longest, "longest")>>]
TieServerTables == {Json(<<TieServer>>), Json(<<TieServer, WildcardServer>>)}
TieTables == {Json(RouterTable(TRUE, TRUE, TRUE)), Json(RouterTable(FALSE, TRUE, TRUE))}
TieRequests ==
    {RouterRequest(Host_release, Path_private \o Path_longest, "192.0.2.1", "-"),
     RouterRequest(Host_release, Path_longest \o Path_private, "192.0.2.1", "-"),
     RouterRequest(Host_release, Path_private, "192.0.2.1", "-"),
     RouterRequest(Host_x, Path_longest, "192.0.2.1", "-")}
NextTies ==
    \/ Tick(Horizon)
    \/ SyncBackends(TieTables)
    \/ SyncServers(TieServerTables)
    \/ Rewrite(TieRequests)
    \/ Balance
    \/ Log
SpecTies == Init /\ [][NextTies]_vars

(***************************************************************************)
(* SpecPolicies: one location / whose policies are every combination of a  *)
(* whitelist, a redirect and the four fields of the rewrite annotation;    *)
(* callers inside and outside the whitelist, over http and https, for /    *)
(* and for a path below it                                                 *)
(***************************************************************************)
Url_app == "/app"
Path_target == <<"/", "t", "/">>
Path_x == <<"/", "x">>
PolicyField(key, present, value) == IF present THEN key :> value ELSE EmptyTable
PolicyLocations ==
    {Location(Path_root, "old")
       @@ PolicyField("whitelist", whitelist, [cidr |-> Cidrs_private])
       @@ PolicyField("redirect", redirect, [url |-> Url_moved, code |-> 301])
       @@ PolicyField("rewrite", app \/ force \/ ssl \/ target,
                      PolicyField("appRoot", app, Url_app)
                        @@ PolicyField("forceSSLRedirect", force, TRUE)
                        @@ PolicyField("sslRedirect", ssl, TRUE)
                        @@ PolicyField("target", target, Path_target)) :
        whitelist \in BOOLEAN, redirect \in BOOLEAN, app \in BOOLEAN,
        force \in BOOLEAN, ssl \in BOOLEAN, target \in BOOLEAN}
PolicyServerTables ==
    {Json(<<[hostname |-> Host_release, locations |-> <<location>>]>>) :
        location \in PolicyLocations}
PolicyTables == {Json(RouterTable(TRUE, TRUE, TRUE))}
PolicyRequests ==
    {[RouterRequest(Host_release, request_uri, the_real_ip, "-") EXCEPT !.scheme = scheme] :
        request_uri \in {Path_root, Path_x}, the_real_ip \in {"10.1.1.1", "192.0.2.1"},
        scheme \in {"http", "https"}}
NextPolicies ==
    \/ SyncBackends(PolicyTables)
    \/ SyncServers(PolicyServerTables)
    \/ Rewrite(PolicyRequests)
    \/ Balance
    \/ Log
SpecPolicies == Init /\ [][NextPolicies]_vars

(***************************************************************************)
(* SpecBadRegex: release policies whose regex rule does not compile        *)
(* (annotation value /(/: parseServiceMatch does not compile the value)    *)
(***************************************************************************)
InvalidRegex == [invalid |-> TRUE]
BadRule == [ticket |-> "header", pattern |-> "regex", key |-> "Foo", value |-> InvalidRegex]
BadMatchNewAndWeight0100 ==
    ReleasePolicy([serviceMatch |-> ("new" :> BadRule),
                   serviceWeight |-> ("old" :> 0) @@ ("new" :> 100)])
BadMatchOldAndWeight2080 ==
    ReleasePolicy([serviceMatch |-> ("old" :> BadRule),
                   serviceWeight |-> ("old" :> 20) @@ ("new" :> 80)])
BadRegexTables ==
    {Json(ReleaseTable(policy, TRUE, TRUE)) :
        policy \in {BadMatchNewAndWeight0100, BadMatchOldAndWeight2080,
                    Weight0100, Weight2080}}
NextBadRegex ==
    \/ SyncBackends(BadRegexTables)
    \/ SyncServers(ReleaseServerTables)
    \/ Rewrite(ReleaseRequests)
    \/ Balance
    \/ Log
SpecBadRegex == Init /\ [][NextBadRegex]_vars

(***************************************************************************)
(* SpecCanary: the legacy canary.  old is the primary and lists new as its *)
(* alternative; new carries the canary policy (header, headerValue,        *)
(* headerPattern, cookie, weight) and no service_weight or service_match.  *)
(***************************************************************************)
Str_always == <<"a", "l", "w", "a", "y", "s">>
Str_never == <<"n", "e", "v", "e", "r">>
CanaryPolicies ==
    {[header |-> "X-Canary", cookie |-> "canary", weight |-> weight,
      headerValue |-> headerValue]
     @@ (IF headerPattern = None THEN EmptyTable
         ELSE [headerPattern |-> headerPattern[1]]) :
        weight \in {0, 30, 100}, headerValue \in {<<>>, Str_bar},
        headerPattern \in {None, Some([alternatives |-> {Str_bar}]),
                           Some([invalid |-> TRUE])}}
CanaryTable(policy, new_up) ==
    <<Backend("old", TRUE, [alternativeBackends |-> <<"new">>,
                            trafficShapingPolicy |-> NoCanary]),
      Backend("new", new_up, [trafficShapingPolicy |-> policy])>>
CanaryTables ==
    {Json(CanaryTable(policy, TRUE)) : policy \in CanaryPolicies}
    \cup {Json(CanaryTable([header |-> "X-Canary", cookie |-> "canary", weight |-> 100,
                            headerValue |-> Str_bar], FALSE))}
CanaryRequests ==
    {ReleaseRequest(headers, cookies, EmptyTable) :
        headers \in {EmptyTable} \cup {[X_Canary |-> value] :
                        value \in {Str_bar, Str_baar, Str_always, Str_never}},
        cookies \in {EmptyTable} \cup {[canary |-> value] :
                        value \in {Str_always, Str_never, Str_bar}}}
NextCanary ==
    \/ SyncBackends(CanaryTables)
    \/ SyncServers({ReleaseServers("old")})
    \/ Rewrite(CanaryRequests)
    \/ Balance
    \/ Log
SpecCanary == Init /\ [][NextCanary]_vars

(***************************************************************************)
(* SpecRegistry: the timers of a worker against a publisher whose tables   *)
(* come and go: services that change type, drain, vanish; no table; a body *)
(* that does not decode.                                                   *)
(***************************************************************************)
Address_ext == "ext.example"
\* a backend of a service of type ExternalName: its endpoint is the name to resolve
ExternalBackend(name) ==
    [name |-> name, endpoints |-> <<Endpoint(Address_ext)>>,
     service |-> [spec |-> [type |-> "ExternalName"]],
     trafficShapingPolicy |-> NoCanary]
RegistryTables ==
    {Json(<<ExternalBackend("ext"), Plain("old", TRUE)>>),
     Json(<<Plain("ext", FALSE), Plain("old", TRUE)>>),
     Json(<<Plain("ext", TRUE), Plain("old", FALSE)>>),
     Json(<<Plain("old", TRUE)>>),
     Json(ReleaseTable(Weight2080, FALSE, TRUE)),
     Json(<<Plain("new", TRUE)>>),
     NoData, Garbage}
\* a server with an alias, as the ingress of the e2e test gives
AliasedServer ==
    [hostname |-> Host_x, aliases |-> <<Host_ab>>,
     locations |-> <<Location(Path_root, "old")>>]
RegistryServerTables ==
    {Json(<<WildcardServer, LiteralServer>>), Json(<<WildcardServer>>),
     Json(<<AliasedServer, WildcardServer>>), NoData, Garbage}

NextRegistry ==
    \/ Tick(Horizon)
    \/ SyncBackends(RegistryTables)
    \/ SyncBackendsWithExternalName
    \/ SyncServers(RegistryServerTables)

SpecRegistry == Init /\ [][NextRegistry]_vars

\* A worker that is started (or restarted) while the publisher already holds a
\* backend table, posted BACKENDS_FORCE_SYNC_INTERVAL seconds before: the state
\* in which init_worker makes its first sync_backends call.
RestartTables == {data \in RegistryTables : Decodes(data)}
InitRestart ==
    /\ releaseIngresses = <<>>
    /\ upstreams = EmptyTable
    /\ now = StartTime
    /\ backends_data \in RestartTables
    /\ servers_data = NoData
    /\ raw_backends_last_synced_at = StartTime - BACKENDS_FORCE_SYNC_INTERVAL
    /\ balancers = EmptyTable
    /\ instances = EmptyTable
    /\ backends_with_external_name = EmptyTable
    /\ backends_last_synced_at = 0
    /\ alternative_backends = EmptyTable
    /\ servers = EmptyTable
    /\ request = NoRequest
    /\ phase = "idle"
    /\ ngx_var = NoVar
    /\ ngx_ctx = EmptyTable
    /\ response = NoResponse
SpecRestart == InitRestart /\ [][NextRegistry]_vars

(***************************************************************************)
(* Backends for get_implementation: every combination of the three fields  *)
(* it reads, as the controller may post them                                *)
(***************************************************************************)
LoadBalanceValues == {None, Some("ewma"), Some("least_conn")}
SessionAffinityConfigs ==
    {None, Some([name |-> ""]), Some([name |-> "cookie"]),
     Some([name |-> "cookie", mode |-> "persistent"])}
UpstreamHashByConfigs ==
    {None, Some(EmptyTable), Some("upstream-hash-by" :> "$request_uri"),
     Some(("upstream-hash-by" :> "$request_uri") @@ ("upstream-hash-by-subset" :> "true"))}
\* a field of the posted backend: absent when it has no value
Field(key, value) == IF value = None THEN EmptyTable ELSE key :> value[1]
LbBackend(lb, affinity, hash) ==
    Plain("old", TRUE) @@ Field("load-balance", lb)
       @@ Field("sessionAffinityConfig", affinity) @@ Field("upstreamHashByConfig", hash)
ImplementationTables ==
    {Json(<<LbBackend(lb, affinity, hash)>>) :
        lb \in LoadBalanceValues, affinity \in SessionAffinityConfigs,
        hash \in UpstreamHashByConfigs}
NextImplementation ==
    \/ Tick(Horizon)
    \/ SyncBackends(ImplementationTables)
SpecImplementation == Init /\ [][NextImplementation]_vars

(***************************************************************************)
(* Release linker of the controller: mergeReleaseAlternativeBackends       *)
(*                                                                         *)
(* An ingress is [Namespace, Rules], a rule [Host, HTTP.Paths], a path     *)
(* [Path, ServiceName, ServicePort]; upstreams maps an upstream name to a  *)
(* backend [AlternativeBackends].  Names are sequences of characters.      *)
(***************************************************************************)
\* fmt.Sprintf("%v-%v-%v", namespace, service, port.String())
upstreamName(namespace, service, port) ==
    namespace \o <<"-">> \o service \o <<"-">> \o port

findAlternativeBackends(backend, backends) ==
    LET Other(b) == b # backend
    IN  SelectSeq(backends, Other)

\* the map colleagueBackends that the loop over the paths of a rule builds
colleagueBackends(ing, rule, ups) ==
    LET paths == rule.HTTP.Paths
        Made[i \in 0..Len(paths)] ==
          IF i = 0 THEN EmptyTable
          ELSE LET path == paths[i]
                   made == IF Has(Made[i - 1], path.Path) THEN Made[i - 1]
                           ELSE Put(Made[i - 1], path.Path, <<>>)
                   upsName == upstreamName(ing.Namespace, path.Backend.ServiceName,
                                           path.Backend.ServicePort)
               IN  IF ~Has(ups, upsName) THEN made
                   ELSE Put(made, path.Path, Append(made[path.Path], upsName))
    IN  Made[Len(paths)]

\* the loop over colleagueBackends; order is the order in which range visits its keys
LinkGroups(ups, groups, order) ==
    LET Visit[k \in 0..Len(order)] ==
          IF k = 0 THEN ups
          ELSE LET upsNames == groups[order[k]]
               IN  IF Len(upsNames) < 2 THEN Visit[k - 1]
                   ELSE [n \in DOMAIN Visit[k - 1] |->
                           IF \E i \in DOMAIN upsNames : upsNames[i] = n
                           THEN [Visit[k - 1][n] EXCEPT
                                   !.AlternativeBackends =
                                       findAlternativeBackends(n, upsNames)]
                           ELSE Visit[k - 1][n]]
    IN  Visit[Len(order)]

\* the keys of a map in the order that a ranking of all path values induces
RangeOrder(ranking, groups) ==
    LET Key(path) == Has(groups, path)
    IN  SelectSeq(ranking, Key)

\* rankings[i][j] decides the visiting order of the groups of rule j of ingress i
mergeReleaseAlternativeBackends(ingresses, ups, rankings) ==
    LET Rules(ing, start, ranking) ==
          LET R[j \in 0..Len(ing.Rules)] ==
                IF j = 0 THEN start
                ELSE LET groups == colleagueBackends(ing, ing.Rules[j], R[j - 1])
                     IN  LinkGroups(R[j - 1], groups, RangeOrder(ranking[j], groups))
          IN  R[Len(ing.Rules)]
        Ings[i \in 0..Len(ingresses)] ==
          IF i = 0 THEN ups
          ELSE Rules(ingresses[i], Ings[i - 1], rankings[i])
    IN  Ings[Len(ingresses)]

\* the release ingresses of the model: one rule of up to MaxPaths paths, two rules
\* of up to two paths each, and two ingresses of one such rule each
MaxPaths == 4
LinkerNamespace == <<"n", "s">>
LinkerPort == <<"8", "0">>
LinkerServices == {<<"a">>, <<"b">>, <<"c">>}
LinkerPaths == {"/", "/x"}
HTTPPaths ==
    {[Path |-> path, Backend |-> [ServiceName |-> service, ServicePort |-> LinkerPort]] :
        path \in LinkerPaths, service \in LinkerServices}
RulesUpTo(k) ==
    {[Host |-> "release.com", HTTP |-> [Paths |-> paths]] :
        paths \in UNION {[1..n -> HTTPPaths] : n \in 0..k}}
ReleaseIngress(rules) == [Namespace |-> LinkerNamespace, Rules |-> rules]
ReleaseIngressLists ==
    {<<ReleaseIngress(<<rule>>)>> : rule \in RulesUpTo(MaxPaths)}
    \cup {<<ReleaseIngress(<<r1, r2>>)>> : r1 \in RulesUpTo(2), r2 \in RulesUpTo(2)}
    \cup {<<ReleaseIngress(<<r1>>), ReleaseIngress(<<r2>>)>> :
            r1 \in RulesUpTo(2), r2 \in RulesUpTo(2)}
\* the upstreams that createUpstreams made: every service, or all but one
UpstreamOf(service) == upstreamName(LinkerNamespace, service, LinkerPort)
UpstreamTables ==
    {[n \in {UpstreamOf(service) : service \in services} |->
        [AlternativeBackends |-> <<>>]] :
     services \in {LinkerServices, LinkerServices \ {<<"c">>}}}
Rankings(ingresses) ==
    [DOMAIN ingresses -> [1..2 -> Orders(LinkerPaths)]]

\* one sync of the controller is followed
MergeReleaseAlternativeBackends ==
    /\ releaseIngresses = <<>>
    /\ \E ingresses \in ReleaseIngressLists, ups \in UpstreamTables :
          \E rankings \in Rankings(ingresses) :
             /\ releaseIngresses' = ingresses
             /\ upstreams' = mergeReleaseAlternativeBackends(ingresses, ups, rankings)
    /\ UNCHANGED <<now, publisher_vars, registry_vars, servers, request_vars>>

NextLinker ==
    \/ Tick(Horizon)
    \/ MergeReleaseAlternativeBackends
SpecLinker == Init /\ [][NextLinker]_vars

(***************************************************************************)
(* Annotation parser of the controller: parseServiceWeight                 *)
(*                                                                         *)
(* An annotation is a sequence of characters.  The result is [ret, config] *)
(* with ret "nil" (nil, nil), "error" (nil, err), "panic" (integer divide  *)
(* by zero) or "config" (the ServiceWeightCfgMap of the returned value).   *)
(***************************************************************************)
\* strings.Split(s, sep) for a separator of one character
SplitStep(pieces, char, sep) ==
    IF char = sep THEN Append(pieces, <<>>)
    ELSE [pieces EXCEPT ![Len(pieces)] = Append(@, char)]
Split(s, sep) ==
    LET Pieces[i \in 0..Len(s)] ==
          IF i = 0 THEN <<<<>>>> ELSE SplitStep(Pieces[i - 1], s[i], sep)
    IN  Pieces[Len(s)]

\* strings.TrimSpace
TrimSpace(s) ==
    LET kept == {i \in DOMAIN s : s[i] \notin {" ", "\t"}}
    IN  IF kept = {} THEN <<>>
        ELSE SubSeq(s, CHOOSE i \in kept : \A j \in kept : i <= j,
                       CHOOSE i \in kept : \A j \in kept : j <= i)

\* strconv.Atoi: [ok, value]
DigitValue ==
    ("0" :> 0) @@ ("1" :> 1) @@ ("2" :> 2) @@ ("3" :> 3) @@ ("4" :> 4)
    @@ ("5" :> 5) @@ ("6" :> 6) @@ ("7" :> 7) @@ ("8" :> 8) @@ ("9" :> 9)
Atoi(s) ==
    LET signed == Len(s) > 0 /\ s[1] \in {"+", "-"}
        digits == IF signed THEN Tail(s) ELSE s
        Value[i \in 0..Len(digits)] ==
          IF i = 0 THEN 0 ELSE 10 * Value[i - 1] + DigitValue[digits[i]]
    IN  IF Len(digits) = 0 \/ \E i \in DOMAIN digits : digits[i] \notin DOMAIN DigitValue
        THEN [ok |-> FALSE, value |-> 0]
        ELSE [ok |-> TRUE,
              value |-> IF signed /\ s[1] = "-" THEN 0 - Value[Len(digits)]
                        ELSE Value[Len(digits)]]

\* the integer division of Go: the quotient is truncated toward zero
Quot(a, b) ==
    LET Abs(x) == IF x < 0 THEN 0 - x ELSE x
    IN  IF (a < 0) = (b < 0) THEN Abs(a) \div Abs(b) ELSE 0 - (Abs(a) \div Abs(b))

\* one pass of the loop over the entries: kv is the split entry
ServiceWeightEntry(weights, name, weight) ==
    IF ~weight.ok THEN [err |-> TRUE, weights |-> EmptyTable]
    ELSE [err |-> FALSE, weights |-> Put(weights, name, weight.value)]
ServiceWeightStep(loop, kv) ==
    IF loop.err THEN loop
    ELSE IF Len(kv) # 2 THEN [err |-> TRUE, weights |-> EmptyTable]
    ELSE IF Len(TrimSpace(kv[1])) = 0 THEN [err |-> TRUE, weights |-> EmptyTable]
    ELSE ServiceWeightEntry(loop.weights, TrimSpace(kv[1]), Atoi(TrimSpace(kv[2])))
\* the loop over the entries: the map weights, or an error
ServiceWeights(serviceWeight) ==
    LET configs == Split(serviceWeight, ",")
        Loop[i \in 0..Len(configs)] ==
          IF i = 0 THEN [err |-> FALSE, weights |-> EmptyTable]
          ELSE ServiceWeightStep(Loop[i - 1], Split(configs[i], ":"))
    IN  Loop[Len(configs)]

\* the services that the range over weights may visit before it breaks
FirstVisited(weights) ==
    IF Cardinality(DOMAIN weights) <= 2 THEN {DOMAIN weights}
    ELSE {services \in SUBSET DOMAIN weights : Cardinality(services) = 2}

\* the percents of the services, from their weights
ServiceWeightConfig(weights, services, totalWeight) ==
    IF totalWeight = 0 THEN [ret |-> "panic", config |-> EmptyTable]
    ELSE [ret |-> "config",
          config |-> [service \in services |-> Quot(100 * weights[service], totalWeight)]]
TotalWeight(weights, services) ==
    LET Sum[todo \in SUBSET services] ==
          IF todo = {} THEN 0
          ELSE LET service == CHOOSE x \in todo : TRUE
               IN  weights[service] + Sum[todo \ {service}]
    IN  Sum[services]
\* a variant that forgets the colleague's weight of 100
ServiceWeightResult_NoColleague(parsed, services) == IF parsed.err THEN [ret |-> "error", config |-> EmptyTable] ELSE IF Cardinality(DOMAIN parsed.weights) = 0 THEN [ret |-> "nil", config |-> EmptyTable] ELSE ServiceWeightConfig(parsed.weights, IF Cardinality(DOMAIN parsed.weights) = 1 THEN DOMAIN parsed.weights ELSE services, TotalWeight(parsed.weights, IF Cardinality(DOMAIN parsed.weights) = 1 THEN DOMAIN parsed.weights ELSE services))
ServiceWeightResult(parsed, services) ==
    IF parsed.err THEN [ret |-> "error", config |-> EmptyTable]
    ELSE IF Cardinality(DOMAIN parsed.weights) = 0 THEN [ret |-> "nil", config |-> EmptyTable]
    ELSE IF Cardinality(DOMAIN parsed.weights) = 1
    THEN ServiceWeightConfig(parsed.weights, DOMAIN parsed.weights,
                             100 + TotalWeight(parsed.weights, DOMAIN parsed.weights))
    ELSE ServiceWeightConfig(parsed.weights, services,
                             TotalWeight(parsed.weights, services))

\* services is what the range over the map weights visited
parseServiceWeight(serviceWeight, services) ==
    IF Len(serviceWeight) = 0 THEN [ret |-> "nil", config |-> EmptyTable]
    ELSE ServiceWeightResult(ServiceWeights(serviceWeight), services)

\* the annotations of the model: one or two entries of every form, three entries
\* of the plain form, and the empty annotation
WeightTexts ==
    {<<"0">>, <<"1">>, <<"2">>, <<"2", "0">>, <<"2", "4">>, <<"8", "0">>,
     <<"1", "9", "9">>, <<"-", "3", "0">>, <<"-", "1", "0", "0">>, <<"x">>, <<>>}
ServiceNames == {<<"a">>, <<"b">>, <<"c">>}
PlainEntries == {name \o <<":">> \o <<"1">> : name \in ServiceNames}
                \cup {name \o <<":">> \o <<"2">> : name \in ServiceNames}
WeightEntries ==
    {name \o <<":">> \o weight : name \in ServiceNames, weight \in WeightTexts}
    \cup {<<" ">> \o name \o <<":", " ">> \o weight \o <<" ">> :
             name \in ServiceNames \ {<<"c">>}, weight \in WeightTexts}
    \cup {<<"a">>, <<":", "1">>, <<"a", ":", "1", ":", "2">>}
ServiceWeightAnnotations ==
    {<<>>} \cup WeightEntries
    \cup {e1 \o <<",">> \o e2 : e1 \in WeightEntries, e2 \in WeightEntries}
    \cup {e1 \o <<",">> \o e2 \o <<",">> \o e3 :
             e1 \in PlainEntries, e2 \in PlainEntries, e3 \in PlainEntries}

\* one ingress is parsed
ParseServiceWeight ==
    /\ releaseIngresses = <<>>
    /\ \E serviceWeight \in ServiceWeightAnnotations :
          \E services \in FirstVisited(ServiceWeights(serviceWeight).weights) :
             releaseIngresses' =
                <<[Namespace |-> LinkerNamespace, Rules |-> <<>>,
                   Annotations |-> [serviceWeight |-> serviceWeight],
                   ParsedAnnotations |->
                      [Canary |-> parseServiceWeight(serviceWeight, services)]]>>
    /\ UNCHANGED <<upstreams, now, publisher_vars, registry_vars, servers, request_vars>>

NextAnnotations ==
    \/ Tick(Horizon)
    \/ ParseServiceWeight
SpecAnnotations == Init /\ [][NextAnnotations]_vars

(***************************************************************************)
(* Serialising a policy.  The repository has no serialiser for the         *)
(* service-weight policy; this is the form the specification names,        *)
(* "svc: percent, ...", one entry per service of the policy.               *)
(***************************************************************************)
DigitChars == <<"0", "1", "2", "3", "4", "5", "6", "7", "8", "9">>
\* the decimal text of an integer
Digits(n) ==
    LET Text[k \in 0..n] ==
          IF k < 10 THEN <<DigitChars[k + 1]>>
          ELSE Append(Text[k \div 10], DigitChars[(k % 10) + 1])
    IN  Text[n]
Itoa(n) == IF n < 0 THEN <<"-">> \o Digits(0 - n) ELSE Digits(n)
SerialiseEntry(config, service) == service \o <<":", " ">> \o Itoa(config[service])
Serialise(config, order) ==
    LET Text[i \in 0..Len(order)] ==
          IF i = 0 THEN <<>>
          ELSE IF i = 1 THEN SerialiseEntry(config, order[1])
          ELSE Text[i - 1] \o <<",", " ">> \o SerialiseEntry(config, order[i])
    IN  Text[Len(order)]

\* the policy of the parsed ingress is written back as an annotation, which
\* is parsed in turn
SerialiseAndParse ==
    /\ Len(releaseIngresses) = 1
    /\ releaseIngresses[1].ParsedAnnotations.Canary.ret = "config"
    /\ \E order \in Orders(DOMAIN releaseIngresses[1].ParsedAnnotations.Canary.config) :
          \E serviceWeight \in {Serialise(releaseIngresses[1].ParsedAnnotations.Canary.config, order)} :
             releaseIngresses' =
                Append(releaseIngresses,
                       [Namespace |-> LinkerNamespace, Rules |-> <<>>,
                        Annotations |-> [serviceWeight |-> serviceWeight],
                        ParsedAnnotations |->
                           [Canary |->
                              parseServiceWeight(serviceWeight,
                                                 DOMAIN ServiceWeights(serviceWeight).weights)]])
    /\ UNCHANGED <<upstreams, now, publisher_vars, registry_vars, servers, request_vars>>

NextRoundTrip ==
    \/ Tick(Horizon)
    \/ ParseServiceWeight
    \/ SerialiseAndParse
SpecRoundTrip == Init /\ [][NextRoundTrip]_vars

(***************************************************************************)
(* Annotation parser of the controller: parseServiceMatch                  *)
(*                                                                         *)
(* The two regular expressions are matched as regexp does it: the leftmost *)
(* match, lazy quantifiers taking the shortest text with which the rest    *)
(* still matches.  Positions are indices of the annotation; 0: no match.   *)
(***************************************************************************)
Word_header == <<"h", "e", "a", "d", "e", "r">>
Word_cookie == <<"c", "o", "o", "k", "i", "e">>
Word_query == <<"q", "u", "e", "r", "y">>
TicketWords == {Word_header, Word_cookie, Word_query}
TicketName == (Word_header :> "header") @@ (Word_cookie :> "cookie")
              @@ (Word_query :> "query")

IsAt(s, i, word) ==
    /\ i >= 1 /\ i + Len(word) - 1 <= Len(s)
    /\ SubSeq(s, i, i + Len(word) - 1) = word
Least(positions) == CHOOSE p \in positions : \A q \in positions : p <= q
\* ": *": the position after the colon at j and the spaces that follow it
AfterSpaces(s, j) ==
    Least({t \in (j + 1)..(Len(s) + 1) :
              /\ \A k \in (j + 1)..(t - 1) : s[k] = " "
              /\ t = Len(s) + 1 \/ s[t] # " "})
\* "(header|cookie|query)\(": the position of the parenthesis, for the colon at j
ParenAfter(s, j) ==
    LET t == AfterSpaces(s, j)
        words == {w \in TicketWords : IsAt(s, t, w) /\ IsAt(s, t + Len(w), <<"(">>)}
    IN  IF words = {} THEN 0 ELSE t + Len(CHOOSE w \in words : TRUE)
TicketAfter(s, j) ==
    TicketName[CHOOSE w \in TicketWords : IsAt(s, AfterSpaces(s, j), w)]

\* serviceMatchGroupRegex `[^,.]+?: *(header|cookie|query)\(.+?,.+?\)` from
\* position i: the colons it can take, then the comma, then the parenthesis
GroupColons(s, i) ==
    {j \in (i + 1)..Len(s) :
        /\ s[j] = ":"
        /\ \A k \in i..(j - 1) : s[k] \notin {",", "."}
        /\ ParenAfter(s, j) # 0
        /\ \E c \in (ParenAfter(s, j) + 2)..Len(s) :
              s[c] = "," /\ \E p \in (c + 2)..Len(s) : s[p] = ")"}
GroupEnd(s, i) ==
    IF GroupColons(s, i) = {} THEN 0
    ELSE LET open == ParenAfter(s, Least(GroupColons(s, i)))
             c == Least({d \in (open + 2)..Len(s) :
                            s[d] = "," /\ \E p \in (d + 2)..Len(s) : s[p] = ")"})
         IN  Least({p \in (c + 2)..Len(s) : s[p] = ")"})
\* reg.FindAllStringSubmatch(serviceMatch, -1): the clauses, left to right
FindAllGroups(s) ==
    LET From[i \in 1..(Len(s) + 1)] ==
          LET starts == {a \in i..Len(s) : GroupEnd(s, a) # 0}
          IN  IF starts = {} THEN <<>>
              ELSE <<SubSeq(s, Least(starts), GroupEnd(s, Least(starts)))>>
                   \o From[GroupEnd(s, Least(starts)) + 1]
    IN  From[1]

\* serviceMatchParseRegex `(.+?): *(header|cookie|query)\("(.+?)",(.+?)\)` on a
\* clause: the colon, the quote that ends the key, the closing parenthesis
KeyEnds(s, open) ==
    {q \in (open + 3)..Len(s) :
        /\ IsAt(s, q, <<"\"", ",">>)
        /\ \E p \in (q + 3)..Len(s) : s[p] = ")"}
ParseColons(s) ==
    {j \in 2..Len(s) :
        /\ s[j] = ":"
        /\ ParenAfter(s, j) # 0
        /\ IsAt(s, ParenAfter(s, j) + 1, <<"\"">>)
        /\ KeyEnds(s, ParenAfter(s, j)) # {}}
\* items[0][1..4] of the first match
ParseItems(s) ==
    LET j == Least(ParseColons(s))
        open == ParenAfter(s, j)
        q == Least(KeyEnds(s, open))
        p == Least({r \in (q + 3)..Len(s) : s[r] = ")"})
    IN  [service |-> SubSeq(s, 1, j - 1), ticket |-> TicketAfter(s, j),
         key |-> SubSeq(s, open + 2, q - 1), value |-> SubSeq(s, q + 2, p - 1)]

parsePatternValue(patternValue) ==
    LET pValue == TrimSpace(patternValue)
        Wrapped(char) == pValue[1] = char /\ pValue[Len(pValue)] = char
        \* TrimPrefix, then TrimSuffix on what is left
        Unwrapped == IF Len(pValue) = 1 THEN <<>> ELSE SubSeq(pValue, 2, Len(pValue) - 1)
    IN  IF Len(pValue) = 0 THEN [value |-> <<>>, pattern |-> ""]
        ELSE IF Wrapped("/") THEN [value |-> Unwrapped, pattern |-> "regex"]
        ELSE IF Wrapped("\"") THEN [value |-> Unwrapped, pattern |-> "exact"]
        ELSE [value |-> <<>>, pattern |-> ""]

\* parseRule: [err, service, rule]
RuleOf(items, parsed) ==
    IF Len(TrimSpace(items.service)) = 0 \/ Len(TrimSpace(items.key)) = 0
       \/ Len(parsed.value) = 0 \/ parsed.pattern = ""
    THEN [err |-> TRUE]
    ELSE [err |-> FALSE, service |-> TrimSpace(items.service),
          rule |-> [ticket |-> items.ticket, pattern |-> parsed.pattern,
                    key |-> TrimSpace(items.key), value |-> parsed.value]]
parseRule(match) ==
    IF ParseColons(match) = {} THEN [err |-> TRUE]
    ELSE RuleOf(ParseItems(match), parsePatternValue(ParseItems(match).value))

\* the loop over the clauses: [err, configs]
ServiceMatchStep(loop, parsed) ==
    IF loop.err THEN loop
    ELSE IF parsed.err THEN [err |-> TRUE, configs |-> EmptyTable]
    ELSE [err |-> FALSE, configs |-> Put(loop.configs, parsed.service, parsed.rule)]
\* [ret, enabled, config]: ret is "nil" (nil, nil), "error" (nil, err) or "config"
parseServiceMatch(serviceMatch) ==
    IF Len(serviceMatch) = 0 THEN [ret |-> "nil", enabled |-> FALSE, config |-> EmptyTable]
    ELSE \* the clauses are found once
         LET matchs == FindAllGroups(serviceMatch)
             Loop[i \in 0..Len(matchs)] ==
               IF i = 0 THEN [err |-> FALSE, configs |-> EmptyTable]
               ELSE ServiceMatchStep(Loop[i - 1], parseRule(matchs[i]))
         IN  IF Loop[Len(matchs)].err
             THEN [ret |-> "error", enabled |-> FALSE, config |-> EmptyTable]
             ELSE [ret |-> "config", enabled |-> Loop[Len(matchs)].configs # EmptyTable,
                   config |-> Loop[Len(matchs)].configs]

\* The annotations of the model are written from clauses [service, ticket, key,
\* value]: key and value are the texts between the parentheses, as written.
Quoted(text) == <<"\"">> \o text \o <<"\"">>
Slashed(text) == <<"/">> \o text \o <<"/">>
ClauseText(clause) ==
    clause.service \o <<":", " ">> \o clause.ticket \o <<"(">> \o clause.key
       \o <<",", " ">> \o clause.value \o <<")">>
MatchServices == {<<"a">>, <<"b">>, <<" ">>}
MatchTickets == TicketWords \cup {<<"h", "e", "a", "d">>}
MatchKeys == {Quoted(<<"k">>), Quoted(<<" ">>), <<"k">>}
MatchValues == {Slashed(<<"v">>), Quoted(<<"v">>), Slashed(<<"(", "v", ")">>),
                <<"v">>, <<"/">>, Quoted(<<>>), <<"/", "v">>}
MatchClauses ==
    [service : MatchServices, ticket : MatchTickets, key : MatchKeys, value : MatchValues]
GoodClause(service) ==
    [service |-> service, ticket |-> Word_cookie, key |-> Quoted(<<"k">>),
     value |-> Quoted(<<"w">>)]
\* one clause of every form; a good clause before or after one of every form
\* for another service; text that is no clause at all
ServiceMatchAnnotations ==
    {<<clause>> : clause \in MatchClauses}
    \cup {<<GoodClause(<<"c">>), clause>> : clause \in MatchClauses}
    \cup {<<clause, GoodClause(<<"c">>)>> : clause \in MatchClauses}
AnnotationText(clauses) ==
    IF Len(clauses) = 1 THEN ClauseText(clauses[1])
    ELSE ClauseText(clauses[1]) \o <<",", " ">> \o ClauseText(clauses[2])
ServiceMatchTexts == {<<>>, <<"x">>, <<"a", ":", "1">>}

\* one ingress is parsed
ParsedServiceMatch(clauses, serviceMatch) ==
    releaseIngresses' =
       <<[Namespace |-> LinkerNamespace, Rules |-> <<>>,
          Clauses |-> clauses,
          Annotations |-> [serviceMatch |-> serviceMatch],
          ParsedAnnotations |-> [ServiceMatch |-> parseServiceMatch(serviceMatch)]]>>
ParseServiceMatch ==
    /\ releaseIngresses = <<>>
    /\ \/ \E clauses \in ServiceMatchAnnotations :
             ParsedServiceMatch(clauses, AnnotationText(clauses))
       \/ \E text \in ServiceMatchTexts : ParsedServiceMatch(<<>>, text)
    /\ UNCHANGED <<upstreams, now, publisher_vars, registry_vars, servers, request_vars>>

NextServiceMatch ==
    \/ Tick(Horizon)
    \/ ParseServiceMatch
SpecServiceMatch == Init /\ [][NextServiceMatch]_vars

(***************************************************************************)
(* SpecPropagation: the controller posts tables to the publisher, and the  *)
(* timers of init_worker read what the publisher holds.  Here              *)
(* backends_data, servers_data and raw_backends_last_synced_at are the     *)
(* publisher's own state.  ngx.timer.every fires each timer again and      *)
(* again, so a run of a timer that would change the worker is not put off  *)
(* for ever: weak fairness of the timer actions.                           *)
(***************************************************************************)
PropagationTables ==
    {Json(<<ExternalBackend("ext"), Plain("old", TRUE)>>),
     Json(<<Plain("ext", TRUE), Plain("old", FALSE)>>),
     NoData, Garbage}
PropagationServerTables ==
    {Json(<<AliasedServer, WildcardServer>>), Json(<<WildcardServer>>), Garbage}

\* POST /configuration/backends: the table and the time of the post
PostBackends(tables) ==
    /\ \E data \in tables :
          /\ backends_data' = data
          /\ raw_backends_last_synced_at' = now
    /\ UNCHANGED <<controller_vars, now, servers_data, registry_vars, servers, request_vars>>
\* POST /configuration/servers
PostServers(tables) ==
    /\ \E data \in tables : servers_data' = data
    /\ UNCHANGED <<controller_vars, now, backends_data, raw_backends_last_synced_at,
                   registry_vars, servers, request_vars>>

\* the timers: a run reads what the publisher holds now
TimerSyncBackends ==
    /\ UNCHANGED <<controller_vars, now, publisher_vars, servers, request_vars>>
    /\ sync_backends(backends_data, raw_backends_last_synced_at)
TimerSyncServers ==
    /\ UNCHANGED <<controller_vars, now, publisher_vars, registry_vars, request_vars>>
    /\ sync_servers(servers_data)

NextPropagation ==
    \/ Tick(Horizon)
    \/ PostBackends(PropagationTables)
    \/ PostServers(PropagationServerTables)
    \/ TimerSyncBackends
    \/ SyncBackendsWithExternalName
    \/ TimerSyncServers
SpecPropagation ==
    /\ Init
    /\ [][NextPropagation]_vars
    /\ WF_vars(TimerSyncBackends)
    /\ WF_vars(TimerSyncServers)

(***************************************************************************)
(* SpecControlPlane: configureReleasePolicy, followed through the          *)
(* publication of the backends to a worker that serves requests.           *)
(*                                                                         *)
(* In the controller a host, a path and an upstream name are sequences of  *)
(* characters.  The worker reads their JSON text.                          *)
(***************************************************************************)
\* genUpstreamName: the upstream of the first path, over the rules of host
\* hostname in order, whose service is the one given; "" when there is none
genUpstreamName(service, ing, hostname) ==
    LET found == {p \in {<<j, k>> : j \in DOMAIN ing.Rules, k \in 1..MaxPaths} :
                    /\ ing.Rules[p[1]].Host = hostname
                    /\ p[2] \in DOMAIN ing.Rules[p[1]].HTTP.Paths
                    /\ ing.Rules[p[1]].HTTP.Paths[p[2]].Backend.ServiceName = service}
        Before(p, q) == p[1] < q[1] \/ (p[1] = q[1] /\ p[2] <= q[2])
    IN  IF found = {} THEN <<>>
        ELSE LET first == CHOOSE p \in found : \A q \in found : Before(p, q)
             IN  upstreamName(ing.Namespace, service,
                     ing.Rules[first[1]].HTTP.Paths[first[2]].Backend.ServicePort)

\* the entries of a per-service map under their upstream names; a service
\* without an upstream name is left out
RenamedServices(cfgMap, ing, hostname) ==
    LET named == {s \in DOMAIN cfgMap : genUpstreamName(s, ing, hostname) # <<>>}
    IN  [n \in {genUpstreamName(s, ing, hostname) : s \in named} |->
           cfgMap[CHOOSE s \in named : genUpstreamName(s, ing, hostname) = n]]

\* configureReleasePolicy: the upstream with the release policy of the ingress
configureReleasePolicy(upstream, ing, hostPath) ==
    LET annos == ing.ParsedAnnotations.Canary
        hostname == Split(hostPath, "/")[1]
        u1 == IF ~annos.Enabled /\ (annos.ServiceWeightEnabled \/ annos.ServiceMatchEnabled)
              THEN [upstream EXCEPT !.TrafficShapingPolicy = [HostPath |-> hostPath]]
              ELSE upstream
        u2 == IF annos.ServiceWeightEnabled
              THEN [u1 EXCEPT !.TrafficShapingPolicy =
                      Put(@, "ServiceWeight",
                          RenamedServices(annos.ServiceWeightCfgMap, ing, hostname))]
              ELSE u1
    IN  IF annos.ServiceMatchEnabled
        THEN [u2 EXCEPT !.TrafficShapingPolicy =
                Put(@, "ServiceMatch",
                    RenamedServices(annos.ServiceMatchCfgMap, ing, hostname))]
        ELSE u2

\* the ingresses of the model: release.com with / served by two or three
\* services, or by two and /x by a third, and annotations that name services
\* of the ingress
Chars_release == <<"r", "e", "l", "e", "a", "s", "e", ".", "c", "o", "m">>
Chars_root == <<"/">>
Chars_x == <<"/", "x">>
ControlPath(path, service) ==
    [Path |-> path, Backend |-> [ServiceName |-> service, ServicePort |-> LinkerPort]]
ControlPaths ==
    {<<ControlPath(Chars_root, <<"a">>), ControlPath(Chars_root, <<"b">>)>>,
     <<ControlPath(Chars_root, <<"b">>), ControlPath(Chars_root, <<"a">>)>>,
     <<ControlPath(Chars_root, <<"a">>), ControlPath(Chars_root, <<"b">>),
       ControlPath(Chars_x, <<"c">>)>>,
     <<ControlPath(Chars_root, <<"a">>), ControlPath(Chars_root, <<"b">>),
       ControlPath(Chars_root, <<"c">>)>>}
ExactFooBar == [ticket |-> "header", pattern |-> "exact", key |-> "Foo", value |-> Str_bar]
ServicesOf(paths) == {paths[k].Backend.ServiceName : k \in DOMAIN paths}
ControlAnnotations(paths) ==
    {[Enabled |-> FALSE,
      ServiceWeightEnabled |-> weights # EmptyTable, ServiceWeightCfgMap |-> weights,
      ServiceMatchEnabled |-> matched # {},
      ServiceMatchCfgMap |-> [s \in matched |-> ExactFooBar]] :
        weights \in {EmptyTable, (<<"a">> :> 50) @@ (<<"b">> :> 50)},
        matched \in SUBSET ServicesOf(paths)}
ControlIngresses ==
    {[Namespace |-> LinkerNamespace,
      Rules |-> <<[Host |-> Chars_release, HTTP |-> [Paths |-> paths]]>>,
      ParsedAnnotations |-> [Canary |-> annos]] :
        paths \in ControlPaths, annos \in UNION {ControlAnnotations(p) : p \in ControlPaths}}

\* createUpstreams: an upstream for every path of the ingress, each given the
\* release policy of the ingress for its host and path
ConfiguredUpstreams(ing) ==
    LET paths == ing.Rules[1].HTTP.Paths
        NameOf(k) == upstreamName(ing.Namespace, paths[k].Backend.ServiceName,
                                  paths[k].Backend.ServicePort)
        Made[k \in 0..Len(paths)] ==
          IF k = 0 THEN EmptyTable
          ELSE IF Has(Made[k - 1], NameOf(k)) THEN Made[k - 1]
          ELSE Put(Made[k - 1], NameOf(k),
                   configureReleasePolicy(
                       [AlternativeBackends |-> <<>>, TrafficShapingPolicy |-> EmptyTable],
                       ing, ing.Rules[1].Host \o paths[k].Path))
    IN  Made[Len(paths)]

\* one sync of the controller: the upstreams of the ingress with their
\* policies, then linked by mergeReleaseAlternativeBackends
ConfigureReleasePolicy ==
    /\ releaseIngresses = <<>>
    /\ \E ing \in ControlIngresses :
          /\ DOMAIN ing.ParsedAnnotations.Canary.ServiceMatchCfgMap
               \subseteq ServicesOf(ing.Rules[1].HTTP.Paths)
          /\ releaseIngresses' = <<ing>>
          /\ \E ranking \in Orders({Chars_root, Chars_x}) :
                upstreams' = mergeReleaseAlternativeBackends(
                                 <<ing>>, ConfiguredUpstreams(ing), <<<<ranking>>>>)
    /\ UNCHANGED <<now, publisher_vars, registry_vars, servers, request_vars>>

\* the JSON text of the names and host paths of the model
Text ==
    (UpstreamOf(<<"a">>) :> "ns-a-80") @@ (UpstreamOf(<<"b">>) :> "ns-b-80")
    @@ (UpstreamOf(<<"c">>) :> "ns-c-80")
    @@ ((Chars_release \o Chars_root) :> "release.com/")
    @@ ((Chars_release \o Chars_x) :> "release.com/x")
TextKeys(cfgMap) == [n \in {Text[k] : k \in DOMAIN cfgMap} |->
                       cfgMap[CHOOSE k \in DOMAIN cfgMap : Text[k] = n]]
\* the backend that the worker is sent for an upstream
PublishedPolicy(policy) ==
    (IF Has(policy, "HostPath") THEN [hostPath |-> Text[policy.HostPath]] ELSE EmptyTable)
    @@ (IF Has(policy, "ServiceWeight")
        THEN [serviceWeight |-> TextKeys(policy.ServiceWeight)] ELSE EmptyTable)
    @@ (IF Has(policy, "ServiceMatch")
        THEN [serviceMatch |-> TextKeys(policy.ServiceMatch)] ELSE EmptyTable)
    @@ NoCanary
PublishedBackend(name) ==
    [name |-> Text[name], endpoints |-> <<Endpoint("10.0.0.1")>>,
     trafficShapingPolicy |-> PublishedPolicy(upstreams[name].TrafficShapingPolicy)]
    @@ (IF upstreams[name].AlternativeBackends = <<>> THEN EmptyTable
        ELSE [alternativeBackends |->
                [i \in DOMAIN upstreams[name].AlternativeBackends |->
                    Text[upstreams[name].AlternativeBackends[i]]]])
PublishedBackends(order) == [i \in DOMAIN order |-> PublishedBackend(order[i])]
\* release.com/ is served by the upstream of the first path of the ingress
PublishedServers ==
    <<[hostname |-> Host_release,
       locations |-> <<Location(Path_root,
           Text[upstreamName(releaseIngresses[1].Namespace,
                    releaseIngresses[1].Rules[1].HTTP.Paths[1].Backend.ServiceName,
                    releaseIngresses[1].Rules[1].HTTP.Paths[1].Backend.ServicePort)])>>]>>

\* the controller posts the backends, in some order, and the servers
Publish ==
    /\ releaseIngresses # <<>>
    /\ backends_data = NoData
    /\ \E order \in Orders(DOMAIN upstreams) :
          backends_data' = Json(PublishedBackends(order))
    /\ servers_data' = Json(PublishedServers)
    /\ raw_backends_last_synced_at' = now
    /\ UNCHANGED <<controller_vars, now, registry_vars, servers, request_vars>>

ControlRequests ==
    {ReleaseRequest(ticket.headers, ticket.cookies, ticket.args) :
        ticket \in {NoTicket, HeaderTicket(Str_bar)}}

NextControlPlane ==
    \/ ConfigureReleasePolicy
    \/ Publish
    \/ TimerSyncBackends
    \/ TimerSyncServers
    \/ Rewrite(ControlRequests)
    \/ Balance
    \/ Log
SpecControlPlane == Init /\ [][NextControlPlane]_vars

(* C38: whatever release policy the control plane publishes for an ingress,  *)
(* the rewrite handler completes with a decision for every request: it does  *)
(* not end in an error for want of a rule to evaluate.                       *)
C38_SelectorCompletes == phase = "rewrite" => response.status # LuaError.status

(***************************************************************************)
(* SpecUpstreamName: upstreamName and splitUpstreamName of the controller  *)
(***************************************************************************)
\* strings.TrimLeft(s, cutset): s without its leading characters that are in cutset
TrimLeft(s, cutset) ==
    LET kept == {i \in DOMAIN s : \A j \in DOMAIN cutset : s[i] # cutset[j]}
    IN  IF kept = {} THEN <<>>
        ELSE SubSeq(s, CHOOSE i \in kept : \A j \in kept : i <= j, Len(s))
\* strings.LastIndex(s, substr) for a substring of one character, counted from 0
LastIndex(s, char) ==
    LET at == {i \in DOMAIN s : s[i] = char}
    IN  IF at = {} THEN -1 ELSE (CHOOSE i \in at : \A j \in at : j <= i) - 1

\* splitUpstreamName: [ret, service, port]; ret is "panic" when the slice
\* str[1:idx] is out of range
splitUpstreamName(name, namespace) ==
    LET str == TrimLeft(name, namespace)
        idx == LastIndex(str, "-")
    IN  IF idx < 0 THEN [ret |-> "ok", service |-> <<>>, port |-> <<>>]
        ELSE IF idx < 1 THEN [ret |-> "panic", service |-> <<>>, port |-> <<>>]
        ELSE [ret |-> "ok", service |-> SubSeq(str, 2, idx),
              port |-> SubSeq(str, idx + 2, Len(str))]

\* namespaces, services and ports (numbers and names) of the model
Namespaces == {<<"n", "s">>, <<"a">>, <<"a", "-", "b">>, <<"k", "s">>}
Services == {<<"a">>, <<"b">>, <<"a", "b">>, <<"s", "v", "c">>, <<"w", "e", "b">>,
             <<"n", "-", "x">>}
Ports == {<<"8", "0">>, <<"8", "0", "8", "0">>, <<"4", "4", "3">>, <<"h", "t", "t", "p">>,
          <<"h", "-", "w">>}

\* an upstream is named, and its name is split again
SplitUpstreamName ==
    /\ upstreams = EmptyTable
    /\ \E namespace \in Namespaces, service \in Services, port \in Ports :
          upstreams' =
             upstreamName(namespace, service, port) :>
                [Namespace |-> namespace, ServiceName |-> service, ServicePort |-> port,
                 Split |-> splitUpstreamName(upstreamName(namespace, service, port),
                                             namespace)]
    /\ UNCHANGED <<releaseIngresses, now, publisher_vars, registry_vars, servers,
                   request_vars>>

NextUpstreamName ==
    \/ Tick(Horizon)
    \/ SplitUpstreamName
SpecUpstreamName == Init /\ [][NextUpstreamName]_vars

(* C40: for every namespace, service and port, splitting the canonical name   *)
(* namespace-service-port of an upstream with its namespace gives the service *)
(* and the port back.                                                         *)
C40_SplitGivesServiceAndPort ==
    \A name \in DOMAIN upstreams :
       Has(upstreams[name], "Split") =>
          /\ upstreams[name].Split.ret = "ok"
          /\ upstreams[name].Split.service = upstreams[name].ServiceName
          /\ upstreams[name].Split.port = upstreams[name].ServicePort

(***************************************************************************)
(* Properties                                                              *)
(*                                                                         *)
(* A selection is judged on the step of the rewrite handler that makes it: *)
(* the registry is the one before the step (the handler does not change    *)
(* it), the request and what the handler left are the ones after it.       *)
(***************************************************************************)
RewriteStep == phase # "rewrite" /\ phase' = "rewrite"

\* the name of the backend whose balancer the request holds
Selected(ctx) == IF Has(ctx, "balancer") THEN Some(ctx.balancer[1]) ELSE None

\* the first alternative of a backend, as the worker knows it: from the
\* balancer of the backend if it has one, else from alternative_backends
Sibling(name) ==
    IF Has(balancers, name)
    THEN IF Has(instances[BalancerRef(name)], "alternative_backends")
         THEN {instances[BalancerRef(name)].alternative_backends[i] :
                  i \in DOMAIN instances[BalancerRef(name)].alternative_backends
                        \cap {1}}
         ELSE {}
    ELSE IF Has(alternative_backends, name)
    THEN {alternative_backends[name][i] : i \in DOMAIN alternative_backends[name] \cap {1}}
    ELSE {}
Group(name) == {name} \cup Sibling(name)

(* C1, as amended: a request that carries the sticky release cookie          *)
(* md5(host_path) with the name of a member Bi of the release group (the     *)
(* primary or its first alternative) is routed to Bi whenever Bi has a       *)
(* balancer, whatever the weights and the draw.                              *)
C1_StickyCookieRoutesToMemberWithBalancer ==
    [][RewriteStep =>
          \A Bi \in Group(ngx_var'.proxy_upstream_name) :
             (CookieGet(request', StickyCookie) = Some(Bi) /\ Has(balancers, Bi))
                => Selected(ngx_ctx') = Some(Bi)]_vars

\* C1 as the claim states it, for the requests that are served at all: the
\* member named is the one selected, whether it has a balancer or not
C1_StickyCookieRoutesToMember ==
    [][RewriteStep /\ Has(ngx_ctx', "balancer") =>
          \A Bi \in Group(ngx_var'.proxy_upstream_name) :
             CookieGet(request', StickyCookie) = Some(Bi)
                => Selected(ngx_ctx') = Some(Bi)]_vars

\* the cookie names old where the weights alone always keep new: old is served
C1_Witness ==
    /\ phase = "rewrite"
    /\ ngx_var.proxy_upstream_name = "new"
    /\ CookieGet(request, StickyCookie) = Some("old")
    /\ Selected(ngx_ctx) = Some("old")
    /\ instances[ngx_ctx.balancer].traffic_shaping_policy = Weight0100
    /\ Has(balancers, "new")

\* the same request without the sticky release cookie
WithoutSticky(req) == [req EXCEPT !.cookies = Del(@, StickyCookie)]
\* ngx.var as handle_server_request left it, before get_balancer ran
BeforeSelection(var) == [var EXCEPT !.proxy_alternative_upstream_name = ""]
\* the backends that the rewrite handler may select for a request, over the draws
Outcomes(req, var) ==
    {Selected(get_balancer(req, var, EmptyTable, r, "rewrite").ctx) : r \in RandomRange}

(* C2: a request whose sticky release cookie names neither the primary nor   *)
(* its alternative is routed exactly as the same request without the cookie  *)
(* would be: the same backends are possible, and the one selected is one of  *)
(* them.                                                                     *)
C2_InvalidStickyCookieIsIgnored ==
    [][(/\ RewriteStep
        /\ CookieGet(request', StickyCookie) # None
        /\ \A Bi \in Group(ngx_var'.proxy_upstream_name) :
              CookieGet(request', StickyCookie) # Some(Bi))
       => /\ Outcomes(request', BeforeSelection(ngx_var'))
               = Outcomes(WithoutSticky(request'), BeforeSelection(ngx_var'))
          /\ Selected(ngx_ctx')
               \in Outcomes(WithoutSticky(request'), BeforeSelection(ngx_var'))]_vars

\* A match rule evaluated on a request: the value of the ticket (a header, a
\* cookie or a query argument; the empty string when missing) compared exactly
\* or searched by the regex.
RuleHolds(rule, req) ==
    LET found == IF rule.ticket = "header"
                 THEN NgxVarHttp(req, replace_special_char(rule.key))
                 ELSE IF rule.ticket = "cookie" THEN NgxVarCookie(req, rule.key)
                 ELSE NgxVarArg(req, rule.key)
        value == IF found = None THEN <<>> ELSE found[1]
    IN  IF rule.pattern = "exact" THEN value = rule.value
        ELSE \E a \in rule.value.alternatives : Occurrences(a, value) # {}

\* the release policy that the balancer of a backend carries
PolicyOf(name) == instances[BalancerRef(name)].traffic_shaping_policy
\* a release group with balancers for both members: the primary and its sibling
BothServing(primary, sibling) ==
    /\ Has(balancers, primary)
    /\ Sibling(primary) = {sibling}
    /\ Has(balancers, sibling)
    /\ Has(instances[BalancerRef(primary)], "traffic_shaping_policy")
\* the rule that the selector consults: the sibling's if it has one, else the
\* primary's
Consulted(serviceMatch, primary, sibling) ==
    IF Has(serviceMatch, sibling) THEN {sibling}
    ELSE IF Has(serviceMatch, primary) THEN {primary}
    ELSE {}
\* the percentage of the sibling: its own entry, else 100 less the primary's
SiblingPercent(serviceWeight, primary, sibling) ==
    IF Has(serviceWeight, sibling) THEN serviceWeight[sibling]
    ELSE 100 - serviceWeight[primary]

(* C3, as amended: in a release group whose two members have balancers and   *)
(* whose policy carries service_match and no service_weight, for every       *)
(* request without the sticky release cookie, the member S claimed by the    *)
(* rule R that the selector consults (the rule of the primary's first        *)
(* alternative if it has one, else the primary's) is selected if and only if *)
(* R holds on the request.                                                   *)
C3_ConsultedRuleDecides ==
    [][RewriteStep =>
          \A A \in Sibling(ngx_var'.proxy_upstream_name) :
            LET P == ngx_var'.proxy_upstream_name
            IN  (/\ BothServing(P, A)
                 /\ Has(PolicyOf(P), "serviceMatch")
                 /\ ~Has(PolicyOf(P), "serviceWeight")
                 /\ CookieGet(request', StickyCookie) = None)
                => \A S \in Consulted(PolicyOf(P).serviceMatch, P, A) :
                      Selected(ngx_ctx') = Some(S)
                         <=> RuleHolds(PolicyOf(P).serviceMatch[S], request')]_vars

\* C3 as the claim states it, for groups whose two members have balancers:
\* every rule of the policy decides for the member it claims, on every request
C3_EveryRuleDecides ==
    [][RewriteStep =>
          \A A \in Sibling(ngx_var'.proxy_upstream_name) :
            LET P == ngx_var'.proxy_upstream_name
            IN  (BothServing(P, A) /\ Has(PolicyOf(P), "serviceMatch"))
                => \A S \in {P, A} \cap DOMAIN PolicyOf(P).serviceMatch :
                      Selected(ngx_ctx') = Some(S)
                         <=> RuleHolds(PolicyOf(P).serviceMatch[S], request')]_vars

\* the rule claims new, the request satisfies it by a regex search, new is served
C3_Witness ==
    /\ phase = "rewrite"
    /\ ngx_var.proxy_upstream_name = "old"
    /\ BothServing("old", "new")
    /\ PolicyOf("old") = MatchNewHeader
    /\ CookieGet(request, StickyCookie) = None
    /\ RuleHolds(MatchNewHeader.serviceMatch["new"], request)
    /\ Selected(ngx_ctx) = Some("new")

(* C4, as amended: with service_match and service_weight both configured and *)
(* balancers for both members, a request without the sticky cookie that does *)
(* not satisfy the consulted rule is never routed to the member S the rule   *)
(* claims; a request that satisfies it is routed by the weights: both        *)
(* members are possible only when the sibling's percentage p is strictly     *)
(* between 0 and 100, else the primary alone (p <= 0) or the sibling alone.  *)
C4_MatchThenWeight ==
    [][RewriteStep =>
          \A A \in Sibling(ngx_var'.proxy_upstream_name) :
            LET P == ngx_var'.proxy_upstream_name
            IN  (/\ BothServing(P, A)
                 /\ Has(PolicyOf(P), "serviceMatch")
                 /\ Has(PolicyOf(P), "serviceWeight")
                 /\ CookieGet(request', StickyCookie) = None)
                => \A S \in Consulted(PolicyOf(P).serviceMatch, P, A) :
                     LET p == SiblingPercent(PolicyOf(P).serviceWeight, P, A)
                         possible == Outcomes(request', BeforeSelection(ngx_var'))
                     IN  /\ Selected(ngx_ctx') \in possible
                         /\ IF ~RuleHolds(PolicyOf(P).serviceMatch[S], request')
                            THEN possible = {Some(CHOOSE B \in {P, A} : B # S)}
                            ELSE possible = IF p <= 0 THEN {Some(P)}
                                            ELSE IF p >= 100 THEN {Some(A)}
                                            ELSE {Some(P), Some(A)}]_vars

\* C4 as the claim states it: both members are possible whenever the rule holds
C4_BothPossibleWhenMatched ==
    [][RewriteStep =>
          \A A \in Sibling(ngx_var'.proxy_upstream_name) :
            LET P == ngx_var'.proxy_upstream_name
            IN  (/\ BothServing(P, A)
                 /\ Has(PolicyOf(P), "serviceMatch")
                 /\ Has(PolicyOf(P), "serviceWeight")
                 /\ CookieGet(request', StickyCookie) = None)
                => \A S \in Consulted(PolicyOf(P).serviceMatch, P, A) :
                     LET possible == Outcomes(request', BeforeSelection(ngx_var'))
                     IN  IF ~RuleHolds(PolicyOf(P).serviceMatch[S], request')
                         THEN possible = {Some(CHOOSE B \in {P, A} : B # S)}
                         ELSE possible = {Some(P), Some(A)}]_vars

\* the request satisfies the rule that claims new, and the draw keeps old
C4_Witness ==
    /\ phase = "rewrite"
    /\ ngx_var.proxy_upstream_name = "old"
    /\ BothServing("old", "new")
    /\ PolicyOf("old") = MatchAndWeight5050
    /\ CookieGet(request, StickyCookie) = None
    /\ RuleHolds(MatchNewQuery["new"], request)
    /\ Selected(ngx_ctx) = Some("old")

(* C5: with service_weight, no match rule, no sticky cookie and balancers    *)
(* for both members, the sibling's percentage p is its own entry or, if only *)
(* the primary has an entry w, 100 - w; for a draw r of 1..100 the sibling   *)
(* is selected iff r <= p and the primary otherwise, so exactly p of the     *)
(* hundred draws go to the sibling.                                          *)
C5_WeightDecides ==
    [][RewriteStep =>
          \A A \in Sibling(ngx_var'.proxy_upstream_name) :
            LET P == ngx_var'.proxy_upstream_name
            IN  (/\ BothServing(P, A)
                 /\ Has(PolicyOf(P), "serviceWeight")
                 /\ ~Has(PolicyOf(P), "serviceMatch")
                 /\ CookieGet(request', StickyCookie) = None)
                => LET p == SiblingPercent(PolicyOf(P).serviceWeight, P, A)
                   IN  /\ p \in 0..100
                       /\ Cardinality({r \in RandomRange : r <= p}) = p
                       /\ \A r \in RandomRange :
                             Selected(get_balancer(request', BeforeSelection(ngx_var'),
                                                   EmptyTable, r, "rewrite").ctx)
                                = IF r <= p THEN Some(A) ELSE Some(P)
                       /\ Selected(ngx_ctx') \in
                             {Some(A) : r \in {r \in RandomRange : r <= p}}
                             \cup {Some(P) : r \in {r \in RandomRange : r > p}}]_vars

\* only new has an entry, 24: with new as the primary, old is served (76 draws)
C5_Witness ==
    /\ phase = "rewrite"
    /\ ngx_var.proxy_upstream_name = "new"
    /\ BothServing("new", "old")
    /\ PolicyOf("new") = WeightNew24
    /\ CookieGet(request, StickyCookie) = None
    /\ Selected(ngx_ctx) = Some("old")

(* C6: in a two-member release group where exactly one member has a          *)
(* balancer (the other has zero endpoints), every request for the location   *)
(* of the group is routed to the member that has the balancer, whichever of  *)
(* the two is the primary and whatever the weights, the match rules and the  *)
(* sticky cookie.                                                            *)
C6_EmptyEndpointFailover ==
    [][RewriteStep =>
          \A A \in Sibling(ngx_var'.proxy_upstream_name) :
            LET P == ngx_var'.proxy_upstream_name
            IN  /\ (Has(balancers, P) /\ ~Has(balancers, A))
                      => Selected(ngx_ctx') = Some(P)
                /\ (~Has(balancers, P) /\ Has(balancers, A))
                      => Selected(ngx_ctx') = Some(A)]_vars

\* old is the primary and has no balancer, the cookie names old: new is served
C6_Witness ==
    /\ phase = "rewrite"
    /\ ngx_var.proxy_upstream_name = "old"
    /\ ~Has(balancers, "old")
    /\ Has(balancers, "new")
    /\ CookieGet(request, StickyCookie) = Some("old")
    /\ Selected(ngx_ctx) = Some("new")
    /\ response.status = 0

\* a backend that can be served: it, or its first alternative, has a balancer
Serving(name) ==
    Has(balancers, name) \/ \E A \in Sibling(name) : Has(balancers, A)
\* an answer with which handle_server_request ends a request: 403 or a redirect
RouterAnswered(answer) == answer.status = HTTP_FORBIDDEN \/ Has(answer, "location")

(* C7, as amended: when neither the primary backend nor its first            *)
(* alternative has a balancer at request time, the rewrite handler selects   *)
(* no balancer and no peer, and answers 503 unless the router has already    *)
(* ended the request with 403 or a redirect; when at least one of the two    *)
(* has a balancer the handler never answers 503.                             *)
C7_EmptyBackendUnavailable ==
    [][RewriteStep =>
          LET P == ngx_var'.proxy_upstream_name
          IN  /\ ~Serving(P) => /\ \/ RouterAnswered(response')
                                   \/ response'.status = HTTP_SERVICE_UNAVAILABLE
                                /\ ~Has(ngx_ctx', "balancer")
                                /\ response'.peer = None
              /\ Serving(P) => response'.status # HTTP_SERVICE_UNAVAILABLE]_vars

\* C7 as the claim states it: without a balancer the answer is always 503
C7_EmptyBackendAlways503 ==
    [][RewriteStep =>
          LET P == ngx_var'.proxy_upstream_name
          IN  /\ ~Serving(P) => /\ response'.status = HTTP_SERVICE_UNAVAILABLE
                                /\ ~Has(ngx_ctx', "balancer")
                                /\ response'.peer = None
              /\ Serving(P) => response'.status # HTTP_SERVICE_UNAVAILABLE]_vars

\* old and new are both scaled to zero: a request for their location gets 503
C7_Witness ==
    /\ phase = "rewrite"
    /\ request.host = Host_release
    /\ ngx_var.proxy_upstream_name = "old"
    /\ ~Has(balancers, "old")
    /\ ~Has(balancers, "new")
    /\ Has(balancers, "wild")
    /\ response.status = HTTP_SERVICE_UNAVAILABLE
    /\ ~Has(ngx_ctx, "balancer")

\* the key of the server registry that serves a host: the host itself, else the
\* host with its first label replaced by "*", else none
ServerEntry(host) ==
    IF Has(servers, host) THEN {host}
    ELSE IF Len(host) >= 2 /\ Has(servers, <<"*">> \o Tail(host))
    THEN {<<"*">> \o Tail(host)}
    ELSE {}
\* the paths of the locations of a server that match a URI
Matching(entry, request_uri) ==
    {path \in DOMAIN servers[entry].locations : PathMatches(request_uri, path)}

(* C8: for every host found in the server registry and every request URI,    *)
(* the location chosen by handle_server_request is one whose path matches    *)
(* the URI and whose path length is maximal among the matching locations of  *)
(* the host; if no location matches, no location is chosen.                  *)
C8_LongestPathSelection ==
    [][RewriteStep =>
          \A entry \in ServerEntry(request'.host) :
             IF Matching(entry, request'.request_uri) = {}
             THEN ngx_var'.location_path = <<>>
             ELSE /\ ngx_var'.location_path \in Matching(entry, request'.request_uri)
                  /\ \A path \in Matching(entry, request'.request_uri) :
                        Len(path) <= Len(ngx_var'.location_path)]_vars

\* with the paths / and /longest, GET /longest selects the /longest location
C8_Witness ==
    /\ phase = "rewrite"
    /\ request.host = Host_x
    /\ request.request_uri = Path_longest
    /\ ServerEntry(Host_x) = {Host_wildcard}
    /\ Matching(Host_wildcard, Path_longest) = {Path_root, Path_longest}
    /\ ngx_var.location_path = Path_longest
    /\ ngx_var.proxy_upstream_name = "longest"

(* C9: the server used for a request is the registry entry of the exact host *)
(* if there is one, even when a wildcard entry covers the host too;          *)
(* otherwise the entry of the host with only its first label replaced by     *)
(* "*"; otherwise none.  The location and the backend published are taken    *)
(* from that entry, and nothing is published when it has no matching         *)
(* location or when there is no entry.                                       *)
C9_HostDispatch ==
    [][RewriteStep =>
          /\ \A entry \in ServerEntry(request'.host) :
                IF Matching(entry, request'.request_uri) = {}
                THEN BeforeSelection(ngx_var') = InitialVar(request')
                ELSE /\ ngx_var'.location_path \in DOMAIN servers[entry].locations
                     /\ ngx_var'.proxy_upstream_name
                          = servers[entry].locations[ngx_var'.location_path].backend
          /\ ServerEntry(request'.host) = {}
                => BeforeSelection(ngx_var') = InitialVar(request')]_vars

\* wc.bar.com has an entry of its own next to *.bar.com: its location is used
C9_Witness ==
    /\ phase = "rewrite"
    /\ request.host = Host_wc
    /\ request.request_uri = Path_longest
    /\ Has(servers, Host_wc)
    /\ Has(servers, Host_wildcard)
    /\ ngx_var.proxy_upstream_name = "literal"

(* C10, as amended: when neither the request host nor its wildcard form is   *)
(* in the server registry, handle_server_request sets no routing variable    *)
(* and ends the request with no answer of its own (no 403, no redirect); the *)
(* rewrite handler still selects a balancer for the statically configured    *)
(* proxy_upstream_name and answers 503 exactly when neither that backend nor *)
(* its first alternative has a balancer.                                     *)
C10_HostMissLeavesStaticRouting ==
    [][(RewriteStep /\ ServerEntry(request'.host) = {}) =>
          /\ BeforeSelection(ngx_var') = InitialVar(request')
          /\ response'.status \in {0, HTTP_SERVICE_UNAVAILABLE}
          /\ response'.status = HTTP_SERVICE_UNAVAILABLE
                <=> ~Serving(request'.static_upstream)]_vars

\* C10 as the claim states it: on a miss the handler answers nothing at all
C10_HostMissNoAction ==
    [][(RewriteStep /\ ServerEntry(request'.host) = {}) =>
          /\ BeforeSelection(ngx_var') = InitialVar(request')
          /\ response'.status = 0]_vars

\* unknown.org has no entry, literal or wildcard: the static upstream serves it
C10_Witness ==
    /\ phase = "rewrite"
    /\ request.host = Host_unknown
    /\ Has(servers, Host_wildcard)
    /\ ServerEntry(Host_unknown) = {}
    /\ request.static_upstream = "wild"
    /\ ngx_var = InitialVar(request)
    /\ Selected(ngx_ctx) = Some("wild")
    /\ response.status = 0

\* the location that handle_server_request selected on the step, if any
SelectedLocation ==
    {servers[entry].locations[ngx_var'.location_path] :
        entry \in {e \in ServerEntry(request'.host) :
                      ngx_var'.location_path \in DOMAIN servers[e].locations}}
\* the CIDR list of a location, empty when it has none
WhitelistOf(location) ==
    IF Has(location, "whitelist") /\ Has(location.whitelist, "cidr")
    THEN location.whitelist.cidr ELSE <<>>
\* the whitelist of the location rejects the caller
Rejected(location, req) ==
    /\ Len(WhitelistOf(location)) > 0
    /\ \A i \in DOMAIN WhitelistOf(location) : req.the_real_ip \notin WhitelistOf(location)[i]
\* the handler stopped before the URI rewrite and the backend selection
Terminated ==
    /\ ngx_var'.uri = request'.request_uri
    /\ ngx_var'.proxy_alternative_upstream_name = ""
    /\ ~Has(ngx_ctx', "balancer")

(* C11: if the selected location has a non-empty CIDR list and the caller's  *)
(* real IP is in none of the CIDRs, the request is answered 403 and nothing  *)
(* follows (no redirect, no rewrite, no backend selection); if the CIDR list *)
(* is empty or absent, or no location is selected, the answer is never 403.  *)
C11_Whitelist ==
    [][RewriteStep =>
          /\ \A location \in SelectedLocation :
                /\ Rejected(location, request')
                      => /\ response'.status = HTTP_FORBIDDEN
                         /\ ~Has(response', "location")
                         /\ Terminated
                /\ Len(WhitelistOf(location)) = 0 => response'.status # HTTP_FORBIDDEN
          /\ SelectedLocation = {} => response'.status # HTTP_FORBIDDEN]_vars

\* /private is whitelisted and rewritten to /: a caller outside the list gets
\* 403 and the URI is left alone
C11_Witness ==
    /\ phase = "rewrite"
    /\ request.request_uri = Path_private
    /\ request.the_real_ip = "192.0.2.1"
    /\ Has(servers, Host_release)
    /\ Rejected(servers[Host_release].locations[Path_private], request)
    /\ Has(servers[Host_release].locations[Path_private], "rewrite")
    /\ response.status = HTTP_FORBIDDEN
    /\ ngx_var.uri = Path_private

\* the redirect URL of a location ("" when it has none) and its code (0 when
\* it has none)
RedirectUrlOf(location) ==
    IF Has(location, "redirect") /\ Has(location.redirect, "url")
    THEN location.redirect.url ELSE ""
RedirectCodeOf(location) ==
    IF Has(location, "redirect") /\ Has(location.redirect, "code")
    THEN location.redirect.code ELSE 0
\* the rewrite policy of the location answers the request with a redirect
RewriteRedirects(location, req) ==
    /\ Has(location, "rewrite")
    /\ \/ /\ Has(location.rewrite, "appRoot")
          /\ location.rewrite.appRoot # ""
          /\ req.request_uri = <<"/">>
       \/ /\ req.scheme # "https"
          /\ \/ Has(location.rewrite, "forceSSLRedirect") /\ location.rewrite.forceSSLRedirect
             \/ Has(location.rewrite, "sslRedirect") /\ location.rewrite.sslRedirect

(* C12: if the selected location has a non-empty redirect URL and the        *)
(* whitelist did not reject, the router answers with a redirect to that URL, *)
(* with the configured code, or 302 when the code is absent or 0, and        *)
(* nothing follows; with an empty or absent redirect URL this step emits no  *)
(* redirect.                                                                 *)
C12_Redirect ==
    [][RewriteStep =>
          \A location \in SelectedLocation :
             ~Rejected(location, request')
                => IF RedirectUrlOf(location) # ""
                   THEN /\ Has(response', "location")
                        /\ response'.location = RedirectUrlOf(location)
                        /\ response'.status = IF RedirectCodeOf(location) = 0
                                              THEN HTTP_MOVED_TEMPORARILY
                                              ELSE RedirectCodeOf(location)
                        /\ Terminated
                   ELSE ~RewriteRedirects(location, request')
                           => ~Has(response', "location")]_vars

\* /moved has a redirect with the code 301
C12_Witness ==
    /\ phase = "rewrite"
    /\ request.request_uri = Path_moved
    /\ Has(servers, Host_release)
    /\ RedirectCodeOf(servers[Host_release].locations[Path_moved]) = 301
    /\ response.status = 301
    /\ response.location = Url_moved

\* The backend table that sync_backends applied last: backends_data is what its
\* last read of the publisher found, and a read that decodes is applied.
Applied == Decodes(backends_data)
AppliedTable == Decoded(backends_data)
\* the entries of a table for a backend name
BackendsOf(table, name) == {table[i] : i \in {j \in DOMAIN table : table[j].name = name}}

(* C13: in every reachable state of a worker, under any interleaving of      *)
(* sync_backends and sync_backends_with_external_name, no balancer of the    *)
(* registry belongs to a backend that the table applied last lists with zero *)
(* endpoints: a drained backend stays evicted once a reconciliation has      *)
(* observed it.                                                              *)
C13_DrainedBackendHasNoBalancer ==
    Applied =>
       \A name \in DOMAIN balancers :
          \A backend \in BackendsOf(AppliedTable, name) : Len(backend.endpoints) > 0

\* the backend names of a table
NamesOf(table) == {table[i].name : i \in DOMAIN table}

(* C14: once sync_backends has applied a table, and until it applies another *)
(* one, the worker holds no balancer, no ExternalName cache entry and no     *)
(* alternative-backend entry for a backend name that is absent from the      *)
(* table, under any interleaving of the two timers.                          *)
C14_VanishedBackendLeavesNothing ==
    Applied =>
       /\ DOMAIN balancers \subseteq NamesOf(AppliedTable)
       /\ DOMAIN backends_with_external_name \subseteq NamesOf(AppliedTable)
       /\ DOMAIN alternative_backends \subseteq NamesOf(AppliedTable)

(* C15: while the publisher has no backend table the balancer registry and   *)
(* the alternative-backend map are empty, and while it has no server table   *)
(* the server registry is empty: the first sync that finds no table empties  *)
(* them and no later timer tick fills them again.                            *)
C15_NoTableNoState ==
    /\ backends_data = NoData =>
          balancers = EmptyTable /\ alternative_backends = EmptyTable
    /\ servers_data = NoData => servers = EmptyTable

\* a sync_backends run of this step passed the gate and read the publisher
BackendsRead ==
    /\ SyncBackends(RegistryTables)
    /\ ~UpToDate(raw_backends_last_synced_at', now)

(* C16: a sync_backends run that reads a backend table it cannot decode      *)
(* leaves the balancer registry, the balancer instances, the alternative-    *)
(* backend map, the ExternalName cache and the last-synced timestamp as they *)
(* were, and the gate stays open so that the next tick reads again; a        *)
(* sync_servers run that reads a server table it cannot decode leaves the    *)
(* server registry as it was.                                                *)
C16_DecodeErrorKeepsSnapshot ==
    [][/\ BackendsRead /\ backends_data' = Garbage =>
            /\ UNCHANGED <<balancers, instances, alternative_backends,
                           backends_with_external_name, backends_last_synced_at>>
            /\ ~(UpToDate(raw_backends_last_synced_at, now))'
       /\ SyncServers(RegistryServerTables) /\ servers_data' = Garbage =>
            UNCHANGED servers]_vars

\* both tables were applied and then both reads failed to decode
C16_Witness ==
    /\ backends_data = Garbage /\ servers_data = Garbage
    /\ balancers # EmptyTable /\ backends_with_external_name # EmptyTable
    /\ servers # EmptyTable
    /\ backends_last_synced_at < raw_backends_last_synced_at

(* C17: a sync_backends run that has read and applied a backend table       *)
(* closes the gate: as long as the publisher's timestamp does not advance, a *)
(* run at the same instant (and any run of the following 30 s) returns       *)
(* without reading the table.                                                *)
C17_RefreshClosesGate ==
    [][BackendsRead /\ Decodes(backends_data') =>
          (UpToDate(raw_backends_last_synced_at, now))']_vars

\* the implementation of the instance that the registry holds for a backend
ImplementationOf(name) == instances[<<name, balancers[name]>>].implementation
CookieAffinity(backend) ==
    /\ Has(backend, "sessionAffinityConfig")
    /\ Has(backend.sessionAffinityConfig, "name")
    /\ backend.sessionAffinityConfig.name = "cookie"
Persistent(backend) ==
    /\ Has(backend.sessionAffinityConfig, "mode")
    /\ backend.sessionAffinityConfig.mode = "persistent"
HashBy(backend) ==
    /\ Has(backend, "upstreamHashByConfig")
    /\ Has(backend.upstreamHashByConfig, "upstream-hash-by")
HashBySubset(backend) == Has(backend.upstreamHashByConfig, "upstream-hash-by-subset")
Supported(name) == IF name \in IMPLEMENTATIONS THEN name ELSE "round_robin"
\* the balancers of the applied table have the implementations that a rule gives
Implements(Rule(_)) ==
    Applied =>
       \A i \in DOMAIN AppliedTable :
          Has(balancers, AppliedTable[i].name) =>
             ImplementationOf(AppliedTable[i].name) = Rule(AppliedTable[i])

(* C18: session affinity by cookie decides first (sticky_persistent for mode *)
(* "persistent", otherwise sticky_balanced), whatever load-balance says;     *)
(* else upstream-hash-by decides (chashsubset when a subset is given,        *)
(* otherwise chash), whatever load-balance says; else the load-balance value *)
(* is used when it names a supported implementation; in every other case     *)
(* round_robin.                                                              *)
C18_AffinityThenHashThenLoadBalance ==
    LET Rule(backend) ==
          IF CookieAffinity(backend)
          THEN IF Persistent(backend) THEN "sticky_persistent" ELSE "sticky_balanced"
          ELSE IF HashBy(backend)
          THEN IF HashBySubset(backend) THEN "chashsubset" ELSE "chash"
          ELSE IF Has(backend, "load-balance") THEN Supported(backend["load-balance"])
          ELSE "round_robin"
    IN  Implements(Rule)

(* C18 as stated: an explicit load-balance value wins (round_robin when the  *)
(* name is not supported); else cookie affinity gives the sticky variant;    *)
(* else upstream-hash-by gives chashsubset or chash; else round_robin.       *)
C18_LoadBalanceWins ==
    LET Rule(backend) ==
          IF Has(backend, "load-balance") THEN Supported(backend["load-balance"])
          ELSE IF CookieAffinity(backend)
          THEN IF Persistent(backend) THEN "sticky_persistent" ELSE "sticky_balanced"
          ELSE IF HashBy(backend)
          THEN IF HashBySubset(backend) THEN "chashsubset" ELSE "chash"
          ELSE "round_robin"
    IN  Implements(Rule)

\* a backend with load-balance ewma and cookie affinity got a sticky balancer
C18_Witness ==
    /\ Applied
    /\ \E i \in DOMAIN AppliedTable :
          /\ Has(AppliedTable[i], "load-balance")
          /\ AppliedTable[i]["load-balance"] = "ewma"
          /\ CookieAffinity(AppliedTable[i])
          /\ Has(balancers, AppliedTable[i].name)
          /\ ImplementationOf(AppliedTable[i].name) = "sticky_balanced"

\* the controller has linked the release ingresses of its sync
Linked == releaseIngresses # <<>>
Members(names) == {names[i] : i \in DOMAIN names}
AlternativesOf(name) == Members(upstreams[name].AlternativeBackends)
\* the upstreams of the table that the paths of a rule with one path value name
GroupOf(ing, rule, value) ==
    {upstreamName(ing.Namespace, rule.HTTP.Paths[k].Backend.ServiceName,
                  rule.HTTP.Paths[k].Backend.ServicePort) :
        k \in {l \in DOMAIN rule.HTTP.Paths : rule.HTTP.Paths[l].Path = value}}
    \cap DOMAIN upstreams
\* the release groups: the groups of at least two upstreams
ReleaseGroups ==
    {group \in UNION {{GroupOf(releaseIngresses[i], releaseIngresses[i].Rules[j], value) :
                          j \in DOMAIN releaseIngresses[i].Rules, value \in LinkerPaths} :
                      i \in DOMAIN releaseIngresses} :
        Cardinality(group) >= 2}

(* C19: after mergeReleaseAlternativeBackends, for every release group each  *)
(* member's AlternativeBackends is the group minus the member; no backend    *)
(* lists itself; and only upstreams of the table are listed.                 *)
C19_AlternativesAreGroupMinusOwner ==
    Linked =>
       /\ \A group \in ReleaseGroups :
             \A member \in group : AlternativesOf(member) = group \ {member}
       /\ \A name \in DOMAIN upstreams :
             /\ name \notin AlternativesOf(name)
             /\ AlternativesOf(name) \subseteq DOMAIN upstreams

(* C20: after mergeReleaseAlternativeBackends, for all backends X and Y, Y   *)
(* is among X's AlternativeBackends if and only if X is among Y's.           *)
C20_LinksAreSymmetric ==
    Linked =>
       \A X \in DOMAIN upstreams, Y \in DOMAIN upstreams :
          Y \in AlternativesOf(X) <=> X \in AlternativesOf(Y)

\* an ingress has been parsed: its annotation and what the parser returned
Parsed == releaseIngresses # <<>> /\ Has(releaseIngresses[1], "ParsedAnnotations")
Annotation == releaseIngresses[1].Annotations.serviceWeight
Canary == releaseIngresses[1].ParsedAnnotations.Canary
Accepted == Parsed /\ Canary.ret = "config"
\* the sum of the percents of a policy
PercentSum(config) ==
    LET Sum[todo \in SUBSET DOMAIN config] ==
          IF todo = {} THEN 0
          ELSE LET service == CHOOSE x \in todo : TRUE
               IN  config[service] + Sum[todo \ {service}]
    IN  Sum[DOMAIN config]

(* C21: for every annotation that parseServiceWeight accepts and whose        *)
(* entries name two or more different services, the returned policy has      *)
(* exactly two entries and their percents sum to exactly 100.                *)
C21_TwoEntriesSumTo100 ==
    Accepted /\ Cardinality(DOMAIN ServiceWeights(Annotation).weights) >= 2 =>
       /\ Cardinality(DOMAIN Canary.config) = 2
       /\ PercentSum(Canary.config) = 100

\* the annotation names one service: that service, and the weight it gives
SingleEntry ==
    /\ Parsed
    /\ ~ServiceWeights(Annotation).err
    /\ Cardinality(DOMAIN ServiceWeights(Annotation).weights) = 1
NamedService == CHOOSE service \in DOMAIN ServiceWeights(Annotation).weights : TRUE
NamedWeight == ServiceWeights(Annotation).weights[NamedService]
\* the percent route_to_alternative_release_balancer gives a sibling of the
\* pair, seen from either side: as the alternative it is the percent drawn
\* against, as the current backend it is the rest
PercentWhenAlternative(config, sibling, other) ==
    ParsedPolicy([serviceWeight |-> config], sibling, other, NoRequest).alternative_weight_percent
PercentWhenCurrent(config, sibling, other) ==
    100 - ParsedPolicy([serviceWeight |-> config], other, sibling, NoRequest).alternative_weight_percent

(* C22: when the annotation names exactly one service svc with weight w,     *)
(* the service that is named receives the percent 100*w/(100+w), truncated   *)
(* toward zero, and its colleague, the sibling that is not named, receives   *)
(* the rest, 100 minus that percent, by the data plane's complement rule;    *)
(* for w = -100 the parser divides by zero and returns nothing.              *)
C22_NamedGetsShareColleagueTheRest ==
    SingleEntry =>
       IF NamedWeight = -100 THEN Canary.ret = "panic"
       ELSE /\ Canary.ret = "config"
            /\ Canary.config = (NamedService :> Quot(100 * NamedWeight, 100 + NamedWeight))
            /\ \A colleague \in ServiceNames \ {NamedService} :
                  /\ PercentWhenAlternative(Canary.config, NamedService, colleague)
                        = Quot(100 * NamedWeight, 100 + NamedWeight)
                  /\ PercentWhenCurrent(Canary.config, NamedService, colleague)
                        = Quot(100 * NamedWeight, 100 + NamedWeight)
                  /\ PercentWhenAlternative(Canary.config, colleague, NamedService)
                        = 100 - Quot(100 * NamedWeight, 100 + NamedWeight)
                  /\ PercentWhenCurrent(Canary.config, colleague, NamedService)
                        = 100 - Quot(100 * NamedWeight, 100 + NamedWeight)
\* "new: 24" gives new 19 percent, and so its colleague 81
C22_Witness ==
    /\ Accepted
    /\ Annotation = <<"a", ":", "2", "4">>
    /\ Canary.config = (<<"a">> :> 19)
    /\ PercentWhenAlternative(Canary.config, <<"b">>, <<"a">>) = 81
\* C22 as stated: the colleague receives 100*w/(100+w)
C22_ColleagueGetsShare ==
    SingleEntry /\ Accepted =>
       \A colleague \in ServiceNames \ {NamedService} :
          /\ PercentWhenAlternative(Canary.config, colleague, NamedService)
                = Quot(100 * NamedWeight, 100 + NamedWeight)
          /\ PercentWhenCurrent(Canary.config, colleague, NamedService)
                = Quot(100 * NamedWeight, 100 + NamedWeight)

\* the policy has been written back and parsed again: what that returned
Reparsed == Len(releaseIngresses) = 2
Reserialised == releaseIngresses[2].Annotations.serviceWeight
CanaryAgain == releaseIngresses[2].ParsedAnnotations.Canary

(* C23: for every annotation a that parseServiceWeight accepts, writing the  *)
(* parsed policy back in the form "svc: percent, ..." and parsing that       *)
(* yields the same policy: parse(serialise(parse(a))) = parse(a).            *)
C23_RoundTrip ==
    Reparsed => CanaryAgain = Canary

\* the step of the balancer handler for a request that the rewrite handler let through
BalanceStep == phase = "rewrite" /\ phase' = "balancer"
\* the weight evaluation decides the requests of a primary whose policy has
\* service_weight and no service_match, when they carry no sticky cookie
WeightDecides(req, primary) ==
    /\ Has(balancers, primary)
    /\ Has(instances[BalancerRef(primary)], "traffic_shaping_policy")
    /\ Has(PolicyOf(primary), "hostPath")
    /\ Has(PolicyOf(primary), "serviceWeight")
    /\ ~Has(PolicyOf(primary), "serviceMatch")
    /\ Sibling(primary) # {}
    /\ CookieGet(req, md5_digest(PolicyOf(primary).hostPath)) = None

(* C24: whenever the weight evaluation decides a request that passes through *)
(* the rewrite phase and then the balancer phase, the response carries the   *)
(* sticky cookie named md5(host_path) whose value is the name of the         *)
(* selected pool, the primary's or the alternative's.                        *)
C24_WeightOutcomeIsPinned ==
    [][(/\ BalanceStep
        /\ WeightDecides(request, ngx_var.proxy_upstream_name)
        /\ ngx_var.proxy_alternative_upstream_name # "")
       => \E cookie \in response'.set_cookie :
             /\ cookie.key = md5_digest(PolicyOf(ngx_var.proxy_upstream_name).hostPath)
             /\ cookie.value = ngx_var'.proxy_alternative_upstream_name
             /\ cookie.value \in Group(ngx_var.proxy_upstream_name)]_vars

\* the publisher holds the backend table T and the server table S, and its
\* timestamp is ahead of the one the worker applied last
Published(T, S) == backends_data = T /\ servers_data = S
Advanced == raw_backends_last_synced_at > backends_last_synced_at
\* the names a server table gives: hostnames and aliases
HostsOf(S) ==
    UNION {{Decoded(S)[i].hostname}
           \cup (IF Has(Decoded(S)[i], "aliases")
                 THEN {Decoded(S)[i].aliases[j] : j \in DOMAIN Decoded(S)[i].aliases}
                 ELSE {}) : i \in DOMAIN Decoded(S)}
\* the backends of a table that are to have a balancer
ServedBackends(T) ==
    {Decoded(T)[i].name : i \in {j \in DOMAIN Decoded(T) :
        /\ ~is_backend_with_external_name(Decoded(T)[j])
        /\ Has(Decoded(T)[j], "endpoints")
        /\ Len(Decoded(T)[j].endpoints) > 0}}
Propagated(T, S) ==
    /\ \A host \in HostsOf(S) : Has(servers, host) /\ LookupServer(host) # None
    /\ \A name \in ServedBackends(T) : Has(balancers, name)
DecodableTables == {T \in PropagationTables : Decodes(T)}
DecodableServerTables == {S \in PropagationServerTables : Decodes(S)}

(* C25: if the publisher holds a decodable backend table T with an advanced  *)
(* timestamp and a decodable server table S, then under fair firing of the   *)
(* worker timers, unless T or S is replaced, the worker eventually reaches a *)
(* state where every hostname and alias of S is in the server registry and   *)
(* every non-ExternalName backend of T with an endpoint has a balancer.      *)
C25_Propagation ==
    \A T \in DecodableTables, S \in DecodableServerTables :
       (Published(T, S) /\ Advanced) ~> (Propagated(T, S) \/ ~Published(T, S))
\* the alias of a server and a backend posted later are in the registries,
\* applied by the timers
C25_Witness ==
    /\ Published(Json(<<Plain("ext", TRUE), Plain("old", FALSE)>>),
                 Json(<<AliasedServer, WildcardServer>>))
    /\ now > StartTime
    /\ raw_backends_last_synced_at = now
    /\ backends_last_synced_at = now
    /\ Has(servers, Host_ab)
    /\ Has(balancers, "ext")
    /\ ~Has(balancers, "old")

\* the members that the weight draw may select: the sibling with percentage p
ByWeights(p, P, A) ==
    IF p <= 0 THEN {Some(P)} ELSE IF p >= 100 THEN {Some(A)} ELSE {Some(P), Some(A)}
\* the member of the pair that the rule is not attached to
Opposite(S, P, A) == CHOOSE B \in {P, A} : B # S

(* C26, as amended: for a request without the sticky cookie in a group with  *)
(* balancers for both members, a failed match of the consulted rule selects  *)
(* the opposite sibling whether or not service_weight is set; a successful   *)
(* match chooses the sibling the rule is attached to when weight is          *)
(* disabled, and falls through to the weight evaluation (the draw then       *)
(* decides) when service_weight is set.                                      *)
C26_FailureOpposesSuccessDraws ==
    [][RewriteStep =>
          \A A \in Sibling(ngx_var'.proxy_upstream_name) :
            LET P == ngx_var'.proxy_upstream_name
            IN  (/\ BothServing(P, A)
                 /\ Has(PolicyOf(P), "serviceMatch")
                 /\ CookieGet(request', StickyCookie) = None)
                => \A S \in Consulted(PolicyOf(P).serviceMatch, P, A) :
                     \E possible \in {Outcomes(request', BeforeSelection(ngx_var'))} :
                        /\ Selected(ngx_ctx') \in possible
                        /\ possible =
                             IF ~RuleHolds(PolicyOf(P).serviceMatch[S], request')
                             THEN {Some(Opposite(S, P, A))}
                             ELSE IF ~Has(PolicyOf(P), "serviceWeight")
                             THEN {Some(S)}
                             ELSE ByWeights(SiblingPercent(PolicyOf(P).serviceWeight, P, A),
                                            P, A)]_vars

\* C26 as the claim states it: a successful match is final, and a failed one
\* leaves the choice to the weights, or to the opposite sibling without them
C26_SuccessChoosesFailureDraws ==
    [][RewriteStep =>
          \A A \in Sibling(ngx_var'.proxy_upstream_name) :
            LET P == ngx_var'.proxy_upstream_name
            IN  (/\ BothServing(P, A)
                 /\ Has(PolicyOf(P), "serviceMatch")
                 /\ CookieGet(request', StickyCookie) = None)
                => \A S \in Consulted(PolicyOf(P).serviceMatch, P, A) :
                     \E possible \in {Outcomes(request', BeforeSelection(ngx_var'))} :
                        possible =
                           IF RuleHolds(PolicyOf(P).serviceMatch[S], request')
                           THEN {Some(S)}
                           ELSE IF ~Has(PolicyOf(P), "serviceWeight")
                           THEN {Some(Opposite(S, P, A))}
                           ELSE ByWeights(SiblingPercent(PolicyOf(P).serviceWeight, P, A),
                                          P, A)]_vars

\* with weights 50/50 the request fails the rule that claims new: old is
\* served, and no draw could have given new
C26_Witness ==
    /\ phase = "rewrite"
    /\ ngx_var.proxy_upstream_name = "new"
    /\ BothServing("new", "old")
    /\ PolicyOf("new") = MatchAndWeight5050
    /\ CookieGet(request, StickyCookie) = None
    /\ ~RuleHolds(MatchNewQuery["new"], request)
    /\ Selected(ngx_ctx) = Some("old")
    /\ Outcomes(request, BeforeSelection(ngx_var)) = {Some("old")}

\* the matching locations of greatest path length for a URI
LongestCandidates(locations, request_uri) ==
    {path \in DOMAIN locations :
        /\ PathMatches(request_uri, path)
        /\ \A other \in DOMAIN locations :
              PathMatches(request_uri, other) => Len(other) <= Len(path)}
\* the member of a set that an order visits last, and the one it visits first
LastSeen(order, S) ==
    order[CHOOSE i \in DOMAIN order :
             order[i] \in S /\ \A j \in DOMAIN order : order[j] \in S => j <= i]
FirstSeen(order, S) ==
    order[CHOOSE i \in DOMAIN order :
             order[i] \in S /\ \A j \in DOMAIN order : order[j] \in S => i <= j]
\* the locations of the server that a request is dispatched to
LocationsFor(req) == LookupServer(req.host)[1].locations

(* C27, as amended: when two or more matching locations of a host have paths *)
(* of the same greatest length, the one seen last during the iteration over  *)
(* the location map wins: a later location of equal length replaces the one  *)
(* kept.  Whatever the order of the iteration, the location selected for a   *)
(* request is the last visited among the longest matching ones.              *)
C27_LastSeenWins ==
    [][(RewriteStep /\ LookupServer(request'.host) # None) =>
          /\ \A order \in VisitOrders(request'.host) :
                LongestCandidates(LocationsFor(request'), request'.request_uri) # {} =>
                   handle_server_request(request', InitialVar(request'), order).location
                     = Some(LastSeen(order, LongestCandidates(LocationsFor(request'),
                                                              request'.request_uri)))
          /\ ngx_var'.location_path
                \in LongestCandidates(LocationsFor(request'), request'.request_uri)]_vars

\* C27 as the claim states it: the first seen of the longest matching
\* locations wins
C27_FirstSeenWins ==
    [][(RewriteStep /\ LookupServer(request'.host) # None) =>
          \A order \in VisitOrders(request'.host) :
             LongestCandidates(LocationsFor(request'), request'.request_uri) # {} =>
                handle_server_request(request', InitialVar(request'), order).location
                  = Some(FirstSeen(order, LongestCandidates(LocationsFor(request'),
                                                            request'.request_uri)))]_vars

\* /private and /longest both occur in the URI and are equally long: the
\* request was given to /longest, and another order would have given /private
C27_Witness ==
    /\ phase = "rewrite"
    /\ request.request_uri = Path_private \o Path_longest
    /\ LookupServer(request.host) # None
    /\ LongestCandidates(LocationsFor(request), request.request_uri)
          = {Path_private, Path_longest}
    /\ ngx_var.location_path = Path_longest
    /\ ngx_var.proxy_upstream_name = "longest"

(* C28: the location selected for a request has a path that matches the      *)
(* request URI as a prefix, from the first character of the URI; a location  *)
(* whose path occurs only later inside the URI is never selected.            *)
C28_SelectedPathIsPrefix ==
    [][RewriteStep =>
          \A order \in VisitOrders(request'.host) :
             \A target \in {handle_server_request(request', InitialVar(request'),
                                                   order).location} :
                /\ target # None => IsPrefix(target[1], request'.request_uri)
                /\ IsPrefix(ngx_var'.location_path, request'.request_uri)]_vars

\* the fields of the rewrite policy of a location
RewriteOf(location) == IF Has(location, "rewrite") THEN location.rewrite ELSE EmptyTable
AppRootOf(location) ==
    IF Has(RewriteOf(location), "appRoot") THEN RewriteOf(location).appRoot ELSE ""
SslRedirectOf(location) ==
    \/ Has(RewriteOf(location), "forceSSLRedirect") /\ RewriteOf(location).forceSSLRedirect
    \/ Has(RewriteOf(location), "sslRedirect") /\ RewriteOf(location).sslRedirect
TargetOf(location) ==
    IF Has(RewriteOf(location), "target") THEN RewriteOf(location).target ELSE <<>>
\* the router answered with a redirect, and nothing followed
Redirected(url, code) ==
    /\ response'.status = code
    /\ Has(response', "location")
    /\ response'.location = url
    /\ Terminated

(* C29: for the selected location the router applies its policies in the     *)
(* order whitelist (403), redirect (the configured code, or 302), app_root   *)
(* when the URI is "/" (302), force_ssl_redirect or ssl_redirect when the    *)
(* scheme is not https (308), and last the rewrite of the URI to the target; *)
(* the first step that applies gives the one response of the request, and    *)
(* the target rewrite is applied only if no earlier step ended the request.  *)
C29_StepOrder ==
    [][RewriteStep =>
          \A location \in SelectedLocation :
             IF Rejected(location, request')
             THEN /\ response'.status = HTTP_FORBIDDEN
                  /\ ~Has(response', "location")
                  /\ Terminated
             ELSE IF RedirectUrlOf(location) # ""
             THEN Redirected(RedirectUrlOf(location),
                             IF RedirectCodeOf(location) = 0 THEN HTTP_MOVED_TEMPORARILY
                             ELSE RedirectCodeOf(location))
             ELSE IF AppRootOf(location) # "" /\ request'.request_uri = <<"/">>
             THEN Redirected(AppRootOf(location), HTTP_MOVED_TEMPORARILY)
             ELSE IF SslRedirectOf(location) /\ request'.scheme # "https"
             THEN Redirected(<<"https://", request'.host, request'.request_uri>>,
                             HTTP_PERMANENT_REDIRECT)
             ELSE /\ ~Has(response', "location")
                  /\ response'.status \in {0, HTTP_SERVICE_UNAVAILABLE}
                  /\ ngx_var'.uri =
                        IF TargetOf(location) # <<>>
                        THEN TargetOf(location)
                               \o SubSeq(request'.request_uri, Len(location.path) + 1,
                                         Len(request'.request_uri))
                        ELSE request'.request_uri]_vars

\* a location with app_root, ssl_redirect and a target, asked for /x over
\* http: app_root does not apply, the ssl redirect answers 308 and the URI
\* is not rewritten
C29_Witness ==
    /\ phase = "rewrite"
    /\ request.request_uri = Path_x
    /\ request.scheme = "http"
    /\ Has(servers, Host_release)
    /\ ~Has(servers[Host_release].locations[Path_root], "redirect")
    /\ AppRootOf(servers[Host_release].locations[Path_root]) = Url_app
    /\ SslRedirectOf(servers[Host_release].locations[Path_root])
    /\ TargetOf(servers[Host_release].locations[Path_root]) = Path_target
    /\ response.status = HTTP_PERMANENT_REDIRECT
    /\ ngx_var.uri = Path_x

\* the backend as sync_backend hands it to an implementation
Formatted(backend) == [backend EXCEPT !.endpoints = format_ipv6_endpoints(@)]
\* the reference that the registry holds for a backend name
RefOf(reg, name) == <<name, reg[name]>>

(* C30: when a sync_backends run applies a table, for every backend of it    *)
(* that has at least one endpoint: if the registry held no balancer under    *)
(* the name, it now holds a new instance of the resolved implementation; if  *)
(* the instance it held is of another implementation, it now holds a         *)
(* different instance, a new one of the resolved implementation; otherwise   *)
(* it holds the same instance as before, synced in place with the backend.   *)
C30_ConstructResetOrSync ==
    [][/\ SyncBackends(ImplementationTables)
       /\ ~UpToDate(raw_backends_last_synced_at', now)
       /\ Decodes(backends_data')
       => \A i \in DOMAIN Decoded(backends_data') :
            \E backend \in {Formatted(Decoded(backends_data')[i])} :
              Len(backend.endpoints) > 0 =>
                /\ Has(balancers', backend.name)
                /\ IF ~Has(balancers, backend.name)
                   THEN instances'[RefOf(balancers', backend.name)]
                           = InstanceNew(get_implementation(backend), backend)
                   ELSE IF ImplementationOf(backend.name) # get_implementation(backend)
                   THEN /\ RefOf(balancers', backend.name) # RefOf(balancers, backend.name)
                        /\ instances'[RefOf(balancers', backend.name)]
                              = InstanceNew(get_implementation(backend), backend)
                   ELSE /\ RefOf(balancers', backend.name) = RefOf(balancers, backend.name)
                        /\ instances'[RefOf(balancers', backend.name)]
                              = InstanceSync(instances[RefOf(balancers, backend.name)],
                                             backend)]_vars

\* the instance constructed first was reset for another implementation, and
\* the second instance is the only one left
C30_Witness ==
    /\ Has(balancers, "old") /\ balancers["old"] = 1
    /\ DOMAIN instances = {<<"old", 1>>}
    /\ ImplementationOf("old") = "chash"
    /\ Applied

\* the aliases of a server of a table, and the names under which it is served
AliasesOf(server) ==
    IF Has(server, "aliases") THEN {server.aliases[j] : j \in DOMAIN server.aliases}
    ELSE {}
NamesOfServer(server) == {server.hostname} \cup AliasesOf(server)
\* the registry reg holds the servers of table T and nothing else
Mirrors(reg, T) ==
    /\ DOMAIN reg = UNION {NamesOfServer(T[i]) : i \in DOMAIN T}
    /\ \A i \in DOMAIN T :
          /\ \A alias \in AliasesOf(T[i]) : reg[alias] = reg[T[i].hostname]
          /\ DOMAIN reg[T[i].hostname].locations
                = {T[i].locations[j].path : j \in DOMAIN T[i].locations}
          /\ \A j \in DOMAIN T[i].locations :
                \E location \in {T[i].locations[j]} :
                   /\ reg[T[i].hostname].locations[location.path].path = location.path
                   /\ reg[T[i].hostname].locations[location.path].backend
                         = location.backend

(* C31: after every sync_servers run that decodes a server table T, the keys *)
(* of the server registry are the hostnames and the aliases of T (the hosts  *)
(* that left the table are gone), every alias holds the same server_conf as  *)
(* the hostname of its server, and the locations of every server are those  *)
(* of T, keyed by their paths.                                                *)
C31_RegistryMirrorsTable ==
    [][SyncServers(RegistryServerTables) /\ Decodes(servers_data') =>
          Mirrors(servers', Decoded(servers_data'))]_vars

\* the table with the aliased server is applied: the alias and the hostname
\* hold the same server_conf
C31_Witness ==
    /\ servers_data = Json(<<AliasedServer, WildcardServer>>)
    /\ DOMAIN servers = {Host_x, Host_ab, Host_wildcard}
    /\ servers[Host_ab] = servers[Host_x]
    /\ DOMAIN servers[Host_wildcard].locations = {Path_root, Path_longest}

\* the service that entry i of the annotation names
EntryName(i) == TrimSpace(Split(Split(Annotation, ",")[i], ":")[1])

(* C32: for every annotation that parseServiceWeight accepts and whose        *)
(* entries name more than two different services, the services of the        *)
(* returned policy are those of the first two entries of the annotation, so  *)
(* that the policy is a function of the annotation alone.                    *)
C32_FirstTwoEntriesKept ==
    Accepted /\ Cardinality(DOMAIN ServiceWeights(Annotation).weights) > 2 =>
       DOMAIN Canary.config = {EntryName(1), EntryName(2)}

\* the request in flight holds a balancer
Holding == phase \in {"rewrite", "balancer"} /\ Has(ngx_ctx, "balancer")
\* what get_balancer gives a later phase of the request in flight
Later == {get_balancer(request, ngx_var, ngx_ctx, r, ph) :
             r \in {1, 100}, ph \in {"balancer", "log"}}

(* C33: a request decides once.  A rewrite handler that draws a number ends   *)
(* with a balancer in ngx.ctx; while the request holds a balancer, every      *)
(* step (of the request or of a reconciliation) that does not end the        *)
(* request leaves it holding the same instance, which stays alive whether or *)
(* not the registry still refers to it; get_balancer in the balancer phase   *)
(* and in the log phase returns that instance without a draw and without     *)
(* changing ngx.var; and the peer of the balancer phase is one of the        *)
(* instance held.                                                            *)
C33_OneDecisionPerRequest ==
    [][/\ RewriteStep =>
             \A order \in VisitOrders(request'.host) : \A r \in {1, 100} :
                rewrite(request', order, r).percent # None =>
                   Has(rewrite(request', order, r).ctx, "balancer")
       /\ Holding =>
             /\ \A selected \in Later :
                   /\ selected.balancer = Some(ngx_ctx.balancer)
                   /\ selected.percent = None
                   /\ selected.ctx = ngx_ctx /\ selected.var = ngx_var
             /\ phase' # "idle" =>
                   /\ ngx_ctx' = ngx_ctx
                   /\ ngx_ctx.balancer \in DOMAIN instances'
                   /\ instances'[ngx_ctx.balancer].implementation
                         = instances[ngx_ctx.balancer].implementation
             /\ BalanceStep => response'.peer \in Peers(ngx_ctx)]_vars

\* the balancer phase has given a peer of the instance that the rewrite phase
\* selected, and the registry has no balancer under that name any more
C33_Witness ==
    /\ phase = "balancer"
    /\ Has(ngx_ctx, "balancer")
    /\ ~Has(balancers, ngx_ctx.balancer[1])
    /\ response.peer # None
    /\ response.peer \in Peers(ngx_ctx)

\* the rule is a regex that ngx.re.match cannot compile
Uncompilable(rule) == rule.pattern = "regex" /\ Has(rule.value, "invalid")

(* C34: for a request without the sticky cookie in a group with balancers    *)
(* for both members, when the rule that the selector consults is a regex     *)
(* that does not compile, the request is routed as the service_weight of the *)
(* policy alone routes it: by the percentage of the sibling.                 *)
C34_BadRegexIsWeightOnly ==
    [][RewriteStep =>
          \A A \in Sibling(ngx_var'.proxy_upstream_name) :
            LET P == ngx_var'.proxy_upstream_name
            IN  (/\ BothServing(P, A)
                 /\ Has(PolicyOf(P), "serviceMatch")
                 /\ Has(PolicyOf(P), "serviceWeight")
                 /\ CookieGet(request', StickyCookie) = None)
                => \A S \in Consulted(PolicyOf(P).serviceMatch, P, A) :
                     Uncompilable(PolicyOf(P).serviceMatch[S]) =>
                       \E possible \in {Outcomes(request', BeforeSelection(ngx_var'))} :
                          /\ Selected(ngx_ctx') \in possible
                          /\ possible =
                               ByWeights(SiblingPercent(PolicyOf(P).serviceWeight, P, A),
                                         P, A)]_vars

\* the canary policy that the balancer of the alternative carries
CanaryOf(A) == instances[BalancerRef(A)].traffic_shaping_policy
\* the values of the request for the header and the cookie that a policy names
CanaryHeader(policy, req) == NgxVarHttp(req, replace_special_char(policy.header))
CanaryCookie(policy, req) == NgxVarCookie(req, policy.cookie)
HeaderValueSet(policy) == Has(policy, "headerValue") /\ Len(policy.headerValue) > 0
\* the header matches: it equals headerValue, or headerValue is not set and
\* headerPattern finds it
HeaderMatches(policy, header) ==
    IF HeaderValueSet(policy) THEN header = policy.headerValue
    ELSE /\ Has(policy, "headerPattern")
         /\ ~Has(policy.headerPattern, "invalid")
         /\ \E a \in policy.headerPattern.alternatives : Occurrences(a, header) # {}
\* the cookie, then the weight
CookieThenWeight(policy, cookie, P, A) ==
    IF cookie = Some(Str_always) THEN {Some(A)}
    ELSE IF cookie = Some(Str_never) THEN {Some(P)}
    ELSE ByWeights(policy.weight, P, A)
\* the legacy canary decides a request on the primary P with alternative A
LegacyDecides(P, A) ==
    /\ Has(balancers, P)
    /\ Has(instances[BalancerRef(P)], "alternative_backends")
    /\ Len(instances[BalancerRef(P)].alternative_backends) > 0
    /\ instances[BalancerRef(P)].alternative_backends[1] = A
    /\ Has(balancers, A)
    /\ Has(instances[BalancerRef(A)], "traffic_shaping_policy")
    /\ ~Has(PolicyOf(P), "serviceWeight") /\ ~Has(PolicyOf(P), "serviceMatch")
    /\ ~Has(PolicyOf(P), "hostPath")

(* C35, as amended: the legacy canary applies header, cookie, weight in this *)
(* order.  A header that matches (it equals headerValue, or headerValue is   *)
(* not set and headerPattern finds it) routes to the alternative whatever    *)
(* the cookie; a header tested with a headerPattern that does not compile    *)
(* keeps the primary; with neither headerValue nor headerPattern set, the    *)
(* header "always" routes to the alternative and the header "never" keeps    *)
(* the primary, whatever the cookie and the weight.  Otherwise the cookie    *)
(* "always" routes to the alternative even with weight 0 and the cookie      *)
(* "never" keeps the primary even with weight 100; otherwise the alternative *)
(* is chosen iff the draw is at most the weight.  Without a balancer for the *)
(* alternative the primary is kept.                                          *)
C35_HeaderCookieWeight ==
    [][RewriteStep /\ Has(balancers, "old") /\ ngx_var'.proxy_upstream_name = "old" =>
          \E possible \in {Outcomes(request', BeforeSelection(ngx_var'))} :
             /\ Selected(ngx_ctx') \in possible
             /\ ~Has(balancers, "new") => possible = {Some("old")}
             /\ LegacyDecides("old", "new") =>
                  \E policy \in {CanaryOf("new")} :
                  \E header \in {CanaryHeader(policy, request')} :
                  \E cookie \in {CanaryCookie(policy, request')} :
                    possible =
                      IF header = None THEN CookieThenWeight(policy, cookie, "old", "new")
                      ELSE IF HeaderMatches(policy, header[1]) THEN {Some("new")}
                      ELSE IF HeaderValueSet(policy)
                      THEN CookieThenWeight(policy, cookie, "old", "new")
                      ELSE IF Has(policy, "headerPattern")
                      THEN IF Has(policy.headerPattern, "invalid") THEN {Some("old")}
                           ELSE CookieThenWeight(policy, cookie, "old", "new")
                      ELSE IF header[1] = Str_always THEN {Some("new")}
                      ELSE IF header[1] = Str_never THEN {Some("old")}
                      ELSE CookieThenWeight(policy, cookie, "old", "new")]_vars

\* C35 as the claim states it: the header decides only when it matches
\* headerValue or headerPattern, and the cookie and the weight decide otherwise
C35_HeaderOnlyWhenItMatches ==
    [][RewriteStep /\ Has(balancers, "old") /\ ngx_var'.proxy_upstream_name = "old" =>
          \E possible \in {Outcomes(request', BeforeSelection(ngx_var'))} :
             /\ Selected(ngx_ctx') \in possible
             /\ ~Has(balancers, "new") => possible = {Some("old")}
             /\ LegacyDecides("old", "new") =>
                  \E policy \in {CanaryOf("new")} :
                  \E header \in {CanaryHeader(policy, request')} :
                  \E cookie \in {CanaryCookie(policy, request')} :
                    possible =
                      IF header # None /\ HeaderMatches(policy, header[1])
                      THEN {Some("new")}
                      ELSE CookieThenWeight(policy, cookie, "old", "new")]_vars

\* the header is "never", the cookie "always" and the policy sets neither
\* headerValue nor headerPattern: the primary is kept although the weight is 100
C35_Witness ==
    /\ phase = "rewrite"
    /\ LegacyDecides("old", "new")
    /\ ~HeaderValueSet(CanaryOf("new")) /\ ~Has(CanaryOf("new"), "headerPattern")
    /\ CanaryOf("new").weight = 100
    /\ CanaryHeader(CanaryOf("new"), request) = Some(Str_never)
    /\ CanaryCookie(CanaryOf("new"), request) = Some(Str_always)
    /\ Selected(ngx_ctx) = Some("old")

\* a service-match annotation has been parsed: how it was written, and the result
MatchParsed ==
    /\ releaseIngresses # <<>>
    /\ Has(releaseIngresses[1].Annotations, "serviceMatch")
    /\ Len(releaseIngresses[1].Annotations.serviceMatch) > 0
WrittenClauses == releaseIngresses[1].Clauses
ServiceMatchResult == releaseIngresses[1].ParsedAnnotations.ServiceMatch
\* the text between a pair of wrapping characters
Inner(text) == SubSeq(text, 2, Len(text) - 1)
WrappedIn(text, char) == Len(text) >= 2 /\ text[1] = char /\ text[Len(text)] = char
\* a clause svc: ticket("key", value) with a service, a known ticket, a key and
\* a value wrapped in slashes or in quotes
WellFormed(clause) ==
    /\ TrimSpace(clause.service) # <<>>
    /\ clause.ticket \in TicketWords
    /\ WrappedIn(clause.key, "\"") /\ TrimSpace(Inner(clause.key)) # <<>>
    /\ \/ WrappedIn(clause.value, "/")
       \/ WrappedIn(clause.value, "\"")
    /\ Inner(clause.value) # <<>>
RuleWritten(clause) ==
    [ticket |-> TicketName[clause.ticket],
     pattern |-> IF WrappedIn(clause.value, "/") THEN "regex" ELSE "exact",
     key |-> TrimSpace(Inner(clause.key)), value |-> Inner(clause.value)]

(* C36: parseServiceMatch returns a policy exactly for the annotations whose  *)
(* clauses are all of the form svc: ticket("key", value) with a ticket among *)
(* header, cookie and query and a value wrapped in slashes (a regex rule) or  *)
(* in quotes (an exact rule); the rule of each service then has the value    *)
(* without its wrapping.  For any other non-empty annotation it returns an   *)
(* invalid-annotation error.                                                  *)
C36_PolicyOrError ==
    MatchParsed =>
       IF WrittenClauses # <<>> /\ \A i \in DOMAIN WrittenClauses : WellFormed(WrittenClauses[i])
       THEN /\ ServiceMatchResult.ret = "config"
            /\ \A i \in DOMAIN WrittenClauses :
                  /\ Has(ServiceMatchResult.config, TrimSpace(WrittenClauses[i].service))
                  /\ ServiceMatchResult.config[TrimSpace(WrittenClauses[i].service)]
                        = RuleWritten(WrittenClauses[i])
       ELSE ServiceMatchResult.ret = "error"

(* C37: after a sync_backends run has applied a table T, every entry of the  *)
(* ExternalName cache belongs to a backend that T flags ExternalName and     *)
(* equals T's version of that backend, so that a later                       *)
(* sync_backends_with_external_name tick syncs no balancer with the data of  *)
(* an older table.                                                           *)
C37_CacheMirrorsAppliedTable ==
    [][BackendsRead /\ Decodes(backends_data') =>
          \A name \in DOMAIN backends_with_external_name' :
             \E backend \in BackendsOf(Decoded(backends_data'), name) :
                /\ is_backend_with_external_name(backend)
                /\ backends_with_external_name'[name] = backend]_vars

\* an entry of the shape name:integer
NameInteger(entry) ==
    /\ Len(Split(entry, ":")) = 2
    /\ TrimSpace(Split(entry, ":")[1]) # <<>>
    /\ Atoi(TrimSpace(Split(entry, ":")[2])).ok
AllNameInteger ==
    \A i \in DOMAIN Split(Annotation, ",") : NameInteger(Split(Annotation, ",")[i])

(* C39: for every annotation whose entries all have the shape name:integer,  *)
(* parseServiceWeight returns a policy or an invalid-annotation error, never  *)
(* an arithmetic failure, and every percent of a returned policy is an        *)
(* integer in 0..100.                                                         *)
C39_TotalOnWellFormed ==
    Parsed /\ AllNameInteger =>
       /\ Canary.ret \in {"config", "error"}
       /\ \A service \in DOMAIN Canary.config : Canary.config[service] \in 0..100

=============================================================================
